---- MODULE Spec2Model ----
(***************************************************************************)
(* Model of the job execution controller of auto-dev-orchestrator:         *)
(*   app/workers/job_worker.py   execute_job and its helpers               *)
(*   app/workers/replanning.py   trigger_replanning                        *)
(*   app/core/guards.py          BudgetGuard, LoopDetector, StallDetector  *)
(*                                                                         *)
(* One job lives in the job/step store.  The task queue delivers           *)
(* execute_job(job_id) to workers; every `with session_scope()` block is   *)
(* one atomic action, every external call (plan generation, code           *)
(* generation, source control) is an action of its own between scopes.     *)
(*                                                                         *)
(* Money is counted in units of 0.25 USD, time in units of one minute      *)
(* scaled down to small numbers.  Ratios (budget_used_pct, thresholds) are *)
(* pairs <<numerator, denominator>> compared by cross-multiplication.      *)
(***************************************************************************)
EXTENDS Integers, Sequences, FiniteSets, TLC

\* ------------------------------------------------------------------ bounds
\* Longest plan the plan-generation collaborator returns.
MaxPlanLen == 3
\* Deliveries of execute_job(job_id) by the at-least-once queue, per worker.
MaxDeliveries == 2
\* Longest plan returned while the queue's deliveries overlap.
MaxQueuePlanLen == 2
\* Largest value of the clock.
MaxNow == 2
\* Largest cost (in units) of one billed call.
MaxCallCost == 2
\* Largest cost_usd (in units) of a job a guard is called on directly.
MaxGuardCost == 10
\* Calls made on one job or step when the guards are called directly.
MaxGuardCalls == 3
\* Largest consecutive_failures of a job the LoopDetector is called on directly.
MaxFailures == 3
\* Longest edit_history with a single foreign entry among repeats of one path.
MaxHoleLen == 7
\* Largest value of the clock when the StallDetector is called directly.
MaxGuardNow == 3
\* Largest token estimate (scaled) given to the router.
MaxTokens == 3

\* ------------------------------------------------------- program constants
\* estimated_cost = 0.5 USD, in units of 0.25 USD.
estimated_cost == 2
\* getattr(settings, "max_replan_attempts", 2)
max_replan_attempts == 2
\* settings.max_step_retries (default 3)
max_step_retries == 3
\* settings.budget_hard_stop_threshold (default 0.9)
budget_hard_stop_threshold == <<9, 10>>
\* settings.stall_timeout_minutes, scaled
stall_timeout_minutes == 1
\* settings.max_file_edits_per_step (default 5)
max_file_edits_per_step == 5
\* record_file_edit keeps history[-20:]
max_edit_history == 20

None == -1

Workers == {1, 2}
\* The worker of the sequential specification.
Solo == {1}

PENDING == "pending"
RUNNING == "running"
REPLANNING == "replanning"
COMPLETED == "completed"
FAILED == "failed"
STALLED == "stalled"
BUDGET_EXCEEDED == "budget_exceeded"

JobStatus == {PENDING, RUNNING, REPLANNING, COMPLETED, FAILED, STALLED, BUDGET_EXCEEDED}
Terminal == {COMPLETED, FAILED, STALLED, BUDGET_EXCEEDED}

VARIABLES
    job,        \* the JobModel row
    jobExists,  \* whether repo.get_job finds the row
    steps,      \* the JobStepModel rows, in creation order; a step's id is its index
    settings,   \* the process-wide settings read by execute_job
    env,        \* what the collaborators and the clock may answer: plan lengths,
                \* token counts, the time that passes between two readings
    now,        \* datetime.utcnow()
    run,        \* per worker: the locals and the position of its execute_job call
    unit        \* the guards called on their own: the step they are given, the
                \* last call and what it returned

vars == <<job, jobExists, steps, settings, env, now, run, unit>>

\* ------------------------------------------------------------------ ratios
Ge(p, q) == p[1] * q[2] >= q[1] * p[2]
Eq(p, q) == p[1] * q[2] = q[1] * p[2]
InList(p, list) == \E i \in 1..Len(list) : Eq(list[i], p)

\* ------------------------------------------------------------ the store
\* repo.update_job_status: sets the status; the first RUNNING stamps started_at.
update_job_status(j, status) ==
    [j EXCEPT !.status = status,
              !.started_at = IF status = RUNNING /\ j.started_at = None
                             THEN now ELSE j.started_at]

\* repo.increment_costs: adds the cost of one billed request.
increment_costs(j, cost) ==
    [j EXCEPT !.cost_usd = j.cost_usd + cost,
              !.requests_made = j.requests_made + 1]

\* repo.create_step: a new row, status pending, retry_count 0.
create_step(name, phase) ==
    [name |-> name, phase |-> phase, status |-> "pending", retry_count |-> 0]

\* repo.update_step(step, status=...)
update_step(s, status) == [s EXCEPT !.status = status]

\* ------------------------------------------------------------ BudgetGuard
OK == "ok"
WARNING_50 == "warning_50"
WARNING_75 == "warning_75"
CRITICAL_90 == "critical_90"
EXCEEDED == "exceeded"

\* Mutant of check_budget: the 0.5 threshold is compared with > instead of >=.
check_budget_StrictHalf(j, estimated_step_cost) ==
    LET current_cost == IF j.cost_usd = None THEN 0 ELSE j.cost_usd
        projected_cost == current_cost + estimated_step_cost
        budget == j.budget_usd
        budget_used_pct == IF budget > 0 THEN <<projected_cost, budget>> ELSE <<0, 1>>
        remaining == budget - projected_cost
        status == IF Ge(budget_used_pct, <<1, 1>>) THEN EXCEEDED
                  ELSE IF Ge(budget_used_pct, budget_hard_stop_threshold) THEN CRITICAL_90
                  ELSE IF Ge(budget_used_pct, <<3, 4>>) THEN WARNING_75
                  ELSE IF ~Ge(<<1, 2>>, budget_used_pct) THEN WARNING_50
                  ELSE OK
        warnings_sent == j.budget_warnings_sent
        should_warn == \/ status = WARNING_50 /\ ~InList(<<1, 2>>, warnings_sent)
                       \/ status = WARNING_75 /\ ~InList(<<3, 4>>, warnings_sent)
        should_block == status \in {CRITICAL_90, EXCEEDED}
    IN  [status |-> status, budget_used_pct |-> budget_used_pct,
         remaining_usd |-> remaining, should_warn |-> should_warn,
         should_block |-> should_block]

\* Mutant of check_budget: should_warn does not look at budget_warnings_sent.
check_budget_AlwaysWarn(j, estimated_step_cost) ==
    LET current_cost == IF j.cost_usd = None THEN 0 ELSE j.cost_usd
        projected_cost == current_cost + estimated_step_cost
        budget == j.budget_usd
        budget_used_pct == IF budget > 0 THEN <<projected_cost, budget>> ELSE <<0, 1>>
        remaining == budget - projected_cost
        status == IF Ge(budget_used_pct, <<1, 1>>) THEN EXCEEDED
                  ELSE IF Ge(budget_used_pct, budget_hard_stop_threshold) THEN CRITICAL_90
                  ELSE IF Ge(budget_used_pct, <<3, 4>>) THEN WARNING_75
                  ELSE IF Ge(budget_used_pct, <<1, 2>>) THEN WARNING_50
                  ELSE OK
        should_warn == status \in {WARNING_50, WARNING_75}
        should_block == status \in {CRITICAL_90, EXCEEDED}
    IN  [status |-> status, budget_used_pct |-> budget_used_pct,
         remaining_usd |-> remaining, should_warn |-> should_warn,
         should_block |-> should_block]

\* BudgetGuard.check_budget(job, estimated_step_cost)
check_budget(j, estimated_step_cost) ==
    LET current_cost == IF j.cost_usd = None THEN 0 ELSE j.cost_usd
        projected_cost == current_cost + estimated_step_cost
        budget == j.budget_usd
        budget_used_pct == IF budget > 0 THEN <<projected_cost, budget>> ELSE <<0, 1>>
        remaining == budget - projected_cost
        status == IF Ge(budget_used_pct, <<1, 1>>) THEN EXCEEDED
                  ELSE IF Ge(budget_used_pct, budget_hard_stop_threshold) THEN CRITICAL_90
                  ELSE IF Ge(budget_used_pct, <<3, 4>>) THEN WARNING_75
                  ELSE IF Ge(budget_used_pct, <<1, 2>>) THEN WARNING_50
                  ELSE OK
        warnings_sent == j.budget_warnings_sent
        should_warn == \/ status = WARNING_50 /\ ~InList(<<1, 2>>, warnings_sent)
                       \/ status = WARNING_75 /\ ~InList(<<3, 4>>, warnings_sent)
        should_block == status \in {CRITICAL_90, EXCEEDED}
    IN  [status |-> status, budget_used_pct |-> budget_used_pct,
         remaining_usd |-> remaining, should_warn |-> should_warn,
         should_block |-> should_block]

\* Mutant of record_warning: the threshold is appended without the membership test.
record_warning_AlwaysAppend(j, threshold) ==
    [j EXCEPT !.budget_warnings_sent = Append(j.budget_warnings_sent, threshold)]

\* BudgetGuard.record_warning(job, threshold, session)
record_warning(j, threshold) ==
    IF ~InList(threshold, j.budget_warnings_sent)
    THEN [j EXCEPT !.budget_warnings_sent = Append(j.budget_warnings_sent, threshold)]
    ELSE j

\* ------------------------------------------------------------ LoopDetector
LOOP_OK == "ok"
RETRY_WARNING == "retry_warning"
LOOP_DETECTED == "loop_detected"

\* Mutant of check_step_retry: consecutive failures count whatever step failed last.
check_step_retry_AnyStep(j, step, step_id) ==
    LET retry_count == IF step.retry_count = None THEN 0 ELSE step.retry_count
        max_retries == max_step_retries
        consecutive == IF j.consecutive_failures = None THEN 0
                       ELSE j.consecutive_failures
        status == IF retry_count >= max_retries THEN LOOP_DETECTED
                  ELSE IF consecutive >= 2 THEN LOOP_DETECTED
                  ELSE IF retry_count >= 2 THEN RETRY_WARNING
                  ELSE LOOP_OK
    IN  [status |-> status, retry_count |-> retry_count,
         should_replan |-> status = LOOP_DETECTED]

\* Mutant of check_step_retry: one failure of the step is already a loop.
check_step_retry_FirstFailure(j, step, step_id) ==
    LET retry_count == IF step.retry_count = None THEN 0 ELSE step.retry_count
        max_retries == max_step_retries
        is_same_step == j.last_failed_step_id = step_id
        consecutive == IF is_same_step
                       THEN (IF j.consecutive_failures = None THEN 0
                             ELSE j.consecutive_failures)
                       ELSE 0
        status == IF retry_count >= max_retries THEN LOOP_DETECTED
                  ELSE IF consecutive >= 1 THEN LOOP_DETECTED
                  ELSE IF retry_count >= 2 THEN RETRY_WARNING
                  ELSE LOOP_OK
    IN  [status |-> status, retry_count |-> retry_count,
         should_replan |-> status = LOOP_DETECTED]

\* LoopDetector.check_step_retry(job, step); step_id is step.id
check_step_retry(j, step, step_id) ==
    LET retry_count == IF step.retry_count = None THEN 0 ELSE step.retry_count
        max_retries == max_step_retries
        is_same_step == j.last_failed_step_id = step_id
        consecutive == IF is_same_step
                       THEN (IF j.consecutive_failures = None THEN 0
                             ELSE j.consecutive_failures)
                       ELSE 0
        status == IF retry_count >= max_retries THEN LOOP_DETECTED
                  ELSE IF consecutive >= 2 THEN LOOP_DETECTED
                  ELSE IF retry_count >= 2 THEN RETRY_WARNING
                  ELSE LOOP_OK
    IN  [status |-> status, retry_count |-> retry_count,
         should_replan |-> status = LOOP_DETECTED]

\* The last n entries of a list: list[-n:] for n > 0.
LastN(list, n) ==
    IF Len(list) > n THEN SubSeq(list, Len(list) - n + 1, Len(list)) ELSE list

\* list.count(x)
Count(list, x) == Cardinality({i \in 1..Len(list) : list[i] = x})

\* Mutant of check_file_edit_loop: the whole history is counted.
check_file_edit_loop_WholeHistory(step, filepath) ==
    Count(step.edit_history, filepath) >= max_file_edits_per_step

\* LoopDetector.check_file_edit_loop(step, filepath)
check_file_edit_loop(step, filepath) ==
    LET edit_history == step.edit_history
        max_edits == max_file_edits_per_step
        recent_edits == IF Len(edit_history) > max_edits
                        THEN LastN(edit_history, max_edits) ELSE edit_history
        same_file_count == Count(recent_edits, filepath)
    IN  same_file_count >= max_edits

\* Mutant of record_file_edit: the first entries are kept, history[:20].
record_file_edit_KeepFirst(step, filepath) ==
    LET history == Append(step.edit_history, filepath)
    IN  [step EXCEPT !.edit_history =
            IF Len(history) > max_edit_history
            THEN SubSeq(history, 1, max_edit_history) ELSE history]

\* LoopDetector.record_file_edit(step, filepath, session)
record_file_edit(step, filepath) ==
    LET history == Append(step.edit_history, filepath)
    IN  [step EXCEPT !.edit_history = LastN(history, max_edit_history)]

\* ----------------------------------------------------------- StallDetector
\* Mutant of check_job_stalled: only the progress timeout is checked.
check_job_stalled_ProgressOnly(j) ==
    IF j.started_at = None THEN FALSE
    ELSE LET last_progress == IF j.last_progress_at # None
                              THEN j.last_progress_at ELSE j.started_at
             time_since_progress == now - last_progress
         IN  time_since_progress > stall_timeout_minutes

\* Mutant of check_job_stalled: the progress timeout is measured from started_at.
check_job_stalled_SinceStart(j) ==
    IF j.started_at = None THEN FALSE
    ELSE LET elapsed == now - j.started_at
         IN  \/ elapsed > j.max_minutes
             \/ elapsed > stall_timeout_minutes

\* Mutant of check_job_stalled: the detector keeps internal state, it answers
\* true once it has been asked before.
check_job_stalled_Remembers(j) ==
    IF j.started_at = None THEN FALSE
    ELSE unit.calls >= 1

\* StallDetector.check_job_stalled(job)
check_job_stalled(j) ==
    IF j.started_at = None THEN FALSE
    ELSE LET elapsed == now - j.started_at
             last_progress == IF j.last_progress_at # None
                              THEN j.last_progress_at ELSE j.started_at
             time_since_progress == now - last_progress
         IN  \/ elapsed > j.max_minutes
             \/ time_since_progress > stall_timeout_minutes

\* StallDetector.record_progress(job, session)
record_progress(j) == [j EXCEPT !.last_progress_at = now]

\* --------------------------------------------------------------- LLMRouter
\* LLMRouter.COMPLEXITY_KEYWORDS
COMPLEXITY_KEYWORDS ==
    <<{"test", "boilerplate", "config", "typing", "import", "format", "lint"},
      {"refactor", "rename", "extract", "cleanup", "documentation", "comment"},
      {"endpoint", "route", "validation", "model", "schema", "crud"},
      {"feature", "component", "service", "integration"},
      {"business logic", "workflow", "state machine", "orchestration"},
      {"migration", "database", "optimization", "caching"},
      {"architecture", "design pattern", "scalability", "distributed"},
      {"security", "authentication", "authorization", "encryption"},
      {"performance", "profiling", "debugging", "race condition"},
      {"critical bug", "data loss", "system failure", "incident"}>>

\* settings.routing_complexity_threshold_medium, _complex: tiers 1-3, 4-7, 8-10
routing_complexity_threshold_medium == 3
routing_complexity_threshold_complex == 7
\* settings.routing_token_threshold_large, scaled
routing_token_threshold_large == 4

\* settings.model_simple, model_medium, model_complex, model_coder
model_simple == "model_simple"
model_medium == "model_medium"
model_complex == "model_complex"
model_coder == "model_coder"

\* get_pricing_table(): price of one token of input and of output, in units of
\* cost, per model, with the mandatory default entry.
Pricing ==
    [m \in {model_simple, model_medium, model_complex, "default"} |->
        IF m = model_simple THEN [input |-> 1, output |-> 1]
        ELSE IF m = model_complex THEN [input |-> 4, output |-> 4]
        ELSE [input |-> 2, output |-> 2]]

\* re.search(r"\b" + re.escape(keyword) + r"\b", text): the lowercased text of a
\* step is the set of words and phrases that occur in it at word boundaries.
Matches(keyword, text) == keyword \in text

\* The loop over COMPLEXITY_KEYWORDS.items() from complexity_level on.
RECURSIVE DetectFrom(_, _, _, _)
DetectFrom(complexity_level, max_score, detected_complexity, text) ==
    IF complexity_level > Len(COMPLEXITY_KEYWORDS) THEN detected_complexity
    ELSE IF /\ \E keyword \in COMPLEXITY_KEYWORDS[complexity_level] :
                  Matches(keyword, text)
            /\ complexity_level > max_score
         THEN DetectFrom(complexity_level + 1, complexity_level, complexity_level, text)
         ELSE DetectFrom(complexity_level + 1, max_score, detected_complexity, text)

\* Mutant of get_complexity: an explicit complexity is returned as given.
get_complexity_NoClamp(step) ==
    IF step.complexity.kind = "int" THEN step.complexity.value
    ELSE DetectFrom(1, 0, 5, step.text)

\* LLMRouter._get_complexity(step); step.complexity.kind tells whether the key
\* is absent, holds an int, or holds something else.
get_complexity(step) ==
    IF step.complexity.kind = "int"
    THEN LET v == step.complexity.value
             lo == IF 10 < v THEN 10 ELSE v
         IN  IF lo > 1 THEN lo ELSE 1
    ELSE DetectFrom(1, 0, 5, step.text)

\* _select_by_complexity with the two thresholds excluded from their tiers.
select_by_complexity_StrictBounds(complexity) ==
    IF complexity < routing_complexity_threshold_medium
    THEN <<model_simple, [kind |-> "simple_task_complexity", n |-> complexity]>>
    ELSE IF complexity < routing_complexity_threshold_complex
    THEN <<model_medium, [kind |-> "medium_task_complexity", n |-> complexity]>>
    ELSE <<model_complex, [kind |-> "complex_task_complexity", n |-> complexity]>>

\* LLMRouter._select_by_complexity(complexity): <<model, reason>>
select_by_complexity(complexity) ==
    IF complexity <= routing_complexity_threshold_medium
    THEN <<model_simple, [kind |-> "simple_task_complexity", n |-> complexity]>>
    ELSE IF complexity <= routing_complexity_threshold_complex
    THEN <<model_medium, [kind |-> "medium_task_complexity", n |-> complexity]>>
    ELSE <<model_complex, [kind |-> "complex_task_complexity", n |-> complexity]>>

\* LLMRouter._estimate_cost(model, tokens_in, tokens_out)
estimate_cost(model, tokens_in, tokens_out) ==
    LET pricing == IF model \in DOMAIN Pricing THEN Pricing[model]
                   ELSE Pricing["default"]
    IN  tokens_in * pricing.input + tokens_out * pricing.output

\* select_model whose token upgrade already applies at the large-token threshold.
select_model_UpgradeAtThreshold(step, j, routing_enabled, estimated_tokens_in, estimated_tokens_out) ==
    IF ~routing_enabled
    THEN [model |-> IF j.model_coder # "" THEN j.model_coder ELSE model_coder,
          reason |-> [kind |-> "routing_disabled", n |-> 0],
          complexity_score |-> 5, estimated_cost |-> 0]
    ELSE
    LET complexity == get_complexity(step)
        remaining_budget == j.budget_usd - (IF j.cost_usd = None THEN 0 ELSE j.cost_usd)
        base == select_by_complexity(complexity)
        total_tokens == estimated_tokens_in + estimated_tokens_out
        upgrade == total_tokens >= routing_token_threshold_large /\ base[1] = model_simple
        model1 == IF upgrade THEN model_medium ELSE base[1]
        reason1 == IF upgrade THEN [kind |-> "token_upgrade_tokens", n |-> total_tokens]
                   ELSE base[2]
        cost1 == estimate_cost(model1, estimated_tokens_in, estimated_tokens_out)
        over(cost) == 2 * cost > remaining_budget
        pressed == over(cost1) /\ remaining_budget > 0
        down1 == pressed /\ model1 = model_complex
        model2 == IF down1 THEN model_medium ELSE model1
        reason2 == IF down1 THEN [kind |-> "budget_downgrade_from_complex", n |-> 0]
                   ELSE reason1
        cost2 == IF down1
                 THEN estimate_cost(model2, estimated_tokens_in, estimated_tokens_out)
                 ELSE cost1
        down2 == pressed /\ over(cost2) /\ model2 = model_medium
        model3 == IF down2 THEN model_simple ELSE model2
        reason3 == IF down2 THEN [kind |-> "budget_downgrade_from_medium", n |-> 0]
                   ELSE reason2
        cost3 == IF down2
                 THEN estimate_cost(model3, estimated_tokens_in, estimated_tokens_out)
                 ELSE cost2
    IN  [model |-> model3, reason |-> reason3, complexity_score |-> complexity,
         estimated_cost |-> cost3]

\* select_model whose budget step takes one downgrade at most: a complex tier
\* stops at medium even when medium is still over the allowance.
select_model_SingleDowngrade(step, j, routing_enabled, estimated_tokens_in, estimated_tokens_out) ==
    IF ~routing_enabled
    THEN [model |-> IF j.model_coder # "" THEN j.model_coder ELSE model_coder,
          reason |-> [kind |-> "routing_disabled", n |-> 0],
          complexity_score |-> 5, estimated_cost |-> 0]
    ELSE
    LET complexity == get_complexity(step)
        remaining_budget == j.budget_usd - (IF j.cost_usd = None THEN 0 ELSE j.cost_usd)
        base == select_by_complexity(complexity)
        total_tokens == estimated_tokens_in + estimated_tokens_out
        upgrade == total_tokens > routing_token_threshold_large /\ base[1] = model_simple
        model1 == IF upgrade THEN model_medium ELSE base[1]
        reason1 == IF upgrade THEN [kind |-> "token_upgrade_tokens", n |-> total_tokens]
                   ELSE base[2]
        cost1 == estimate_cost(model1, estimated_tokens_in, estimated_tokens_out)
        over(cost) == 2 * cost > remaining_budget
        pressed == over(cost1) /\ remaining_budget > 0
        down1 == pressed /\ model1 = model_complex
        model2 == IF down1 THEN model_medium ELSE model1
        reason2 == IF down1 THEN [kind |-> "budget_downgrade_from_complex", n |-> 0]
                   ELSE reason1
        cost2 == IF down1
                 THEN estimate_cost(model2, estimated_tokens_in, estimated_tokens_out)
                 ELSE cost1
        down2 == pressed /\ ~down1 /\ over(cost2) /\ model2 = model_medium
        model3 == IF down2 THEN model_simple ELSE model2
        reason3 == IF down2 THEN [kind |-> "budget_downgrade_from_medium", n |-> 0]
                   ELSE reason2
        cost3 == IF down2
                 THEN estimate_cost(model3, estimated_tokens_in, estimated_tokens_out)
                 ELSE cost2
    IN  [model |-> model3, reason |-> reason3, complexity_score |-> complexity,
         estimated_cost |-> cost3]

\* LLMRouter.select_model(step, job, estimated_tokens_in, estimated_tokens_out);
\* an unset job.model_coder is the empty string.
select_model(step, j, routing_enabled, estimated_tokens_in, estimated_tokens_out) ==
    IF ~routing_enabled
    THEN [model |-> IF j.model_coder # "" THEN j.model_coder ELSE model_coder,
          reason |-> [kind |-> "routing_disabled", n |-> 0],
          complexity_score |-> 5, estimated_cost |-> 0]
    ELSE
    LET complexity == get_complexity(step)
        remaining_budget == j.budget_usd - (IF j.cost_usd = None THEN 0 ELSE j.cost_usd)
        base == select_by_complexity(complexity)
        total_tokens == estimated_tokens_in + estimated_tokens_out
        upgrade == total_tokens > routing_token_threshold_large /\ base[1] = model_simple
        model1 == IF upgrade THEN model_medium ELSE base[1]
        reason1 == IF upgrade THEN [kind |-> "token_upgrade_tokens", n |-> total_tokens]
                   ELSE base[2]
        cost1 == estimate_cost(model1, estimated_tokens_in, estimated_tokens_out)
        \* estimated_cost > remaining_budget * 0.5 and remaining_budget * 0.5 > 0
        over(cost) == 2 * cost > remaining_budget
        pressed == over(cost1) /\ remaining_budget > 0
        down1 == pressed /\ model1 = model_complex
        model2 == IF down1 THEN model_medium ELSE model1
        reason2 == IF down1 THEN [kind |-> "budget_downgrade_from_complex", n |-> 0]
                   ELSE reason1
        cost2 == IF down1
                 THEN estimate_cost(model2, estimated_tokens_in, estimated_tokens_out)
                 ELSE cost1
        down2 == pressed /\ over(cost2) /\ model2 = model_medium
        model3 == IF down2 THEN model_simple ELSE model2
        reason3 == IF down2 THEN [kind |-> "budget_downgrade_from_medium", n |-> 0]
                   ELSE reason2
        cost3 == IF down2
                 THEN estimate_cost(model3, estimated_tokens_in, estimated_tokens_out)
                 ELSE cost2
    IN  [model |-> model3, reason |-> reason3, complexity_score |-> complexity,
         estimated_cost |-> cost3]

\* ------------------------------------------------------------- job_worker
NoError == "none"
MaxReplansError == "Max replanning attempts exceeded"

\* Mutant of check_limits: the caps are compared with > instead of >=.
check_limits_Strict(j, at) ==
    IF j.cost_usd > j.budget_usd THEN "Budget limit exceeded"
    ELSE IF j.requests_made > j.max_requests THEN "Request limit exceeded"
    ELSE IF j.started_at # None /\ at - j.started_at > j.max_minutes
         THEN "Wall-clock limit exceeded"
    ELSE NoError

\* Mutant of check_limits: the legacy budget cap is missing.
check_limits_NoBudgetCap(j, at) ==
    IF j.requests_made >= j.max_requests THEN "Request limit exceeded"
    ELSE IF j.started_at # None /\ at - j.started_at > j.max_minutes
         THEN "Wall-clock limit exceeded"
    ELSE NoError

\* _check_limits(job, now=at): the error it raises, or NoError
check_limits(j, at) ==
    IF j.cost_usd >= j.budget_usd THEN "Budget limit exceeded"
    ELSE IF j.requests_made >= j.max_requests THEN "Request limit exceeded"
    ELSE IF j.started_at # None /\ at - j.started_at > j.max_minutes
         THEN "Wall-clock limit exceeded"
    ELSE NoError

\* _calculate_cost(model, tokens_in, tokens_out); tokens are counted in the
\* amount that costs one unit at the model's price.
calculate_cost(model, tokens) == tokens

\* The budgets a job is created with: 0.25 USD, 0.5 USD and 2 USD, in units.
Budgets == {1, 2, 8}
\* job.max_requests a job is created with.
RequestCaps == {2, 50}
\* job.max_minutes, scaled.
JobMaxMinutes == MaxNow - 1

\* A StepSpec of a plan: the plan it belongs to (0: the initial plan, k: the
\* plan of the k-th replan of this run) and its position in it.
MakePlan(gen, n) == [i \in 1..n |-> [gen |-> gen, pos |-> i]]
NoStep == [gen |-> None, pos |-> 0]

\* The locals of a worker that runs no execute_job call.
FreshRun(delivered) ==
    [pc |-> "off", plan |-> <<>>, iter |-> <<>>, idx |-> 0, step |-> NoStep,
     step_id |-> 0, new_plan |-> <<>>, tokens |-> 0, model_name |-> "none", exc |-> NoError,
     outcome |-> "none", delivered |-> delivered, gen |-> 0,
     plan_calls |-> 0, code_calls |-> 0]

\* No guard has been called on its own.
NoUnit == [suite |-> "none", step |-> [id |-> 0, retry_count |-> 0, edit_history |-> <<>>],
           call |-> "none", arg |-> 0, result |-> [status |-> "none"],
           recorded |-> {}, calls |-> 0]

\* A job row as the queue may find it: created by the API (status PENDING,
\* nothing spent), with the replan_count earlier deliveries may have left.
Jobs(cancelled, budgets, caps) ==
    [status : {PENDING}, cancelled : cancelled, cost_usd : {0},
     budget_usd : budgets, requests_made : {0}, max_requests : caps,
     replan_count : 0..max_replan_attempts, consecutive_failures : {0},
     last_failed_step_id : {None}, budget_warnings_sent : {<<>>},
     started_at : {None}, last_progress_at : {None},
     max_minutes : {JobMaxMinutes}]

Init ==
    /\ job \in Jobs(BOOLEAN, Budgets, RequestCaps)
    /\ jobExists \in BOOLEAN
    /\ steps = <<>>
    /\ settings \in [dry_run : BOOLEAN]
    /\ env = [plan_lens |-> 0..MaxPlanLen, tokens |-> 0..MaxCallCost,
              clock_steps |-> {0, 1}]
    /\ now = 0
    /\ run = [w \in Workers |-> IF w \in Solo THEN [FreshRun(1) EXCEPT !.pc = "idle"]
                                               ELSE FreshRun(0)]
    /\ unit = NoUnit

\* ------------------------------------------------------------- helpers
Goto(w, pc) == run' = [run EXCEPT ![w].pc = pc]
\* An exception leaves the try block: control moves to the except clause.
Raise(w, msg) == run' = [run EXCEPT ![w].pc = "except", ![w].exc = msg]
\* The function returns without raising.
Return(w) == run' = [run EXCEPT ![w].pc = "done", ![w].outcome = "returned"]

\* The positions whose next action reads the clock (started_at, record_progress,
\* check_job_stalled, _check_limits).
ReadsClock == {"initial_progress", "step_head", "bill_step"}

\* The clock advances.  It is only observed by the actions at ReadsClock, so
\* time that passes elsewhere is counted when the next such action is due.
Tick ==
    /\ now < MaxNow
    /\ \E w \in Workers : run[w].pc \in ReadsClock
    /\ now' = now + 1
    /\ UNCHANGED <<job, jobExists, steps, settings, env, run, unit>>

\* Deliveries of execute_job(job_id) made so far.
Delivered == run[1].delivered + run[2].delivered

\* The at-least-once queue delivers execute_job(job_id) to a worker that runs
\* no call: a first delivery, or a redelivery after the call has ended.  Worker 2
\* is used once worker 1 has been.
Deliver(w) ==
    /\ run[w].pc \in {"off", "done"}
    /\ Delivered < MaxDeliveries
    /\ w = 1 \/ run[1].delivered > 0
    /\ run' = [run EXCEPT ![w] = [FreshRun(run[w].delivered + 1) EXCEPT !.pc = "idle"]]
    /\ UNCHANGED <<job, jobExists, steps, settings, env, now, unit>>

\* Mutant of Startup: the status is set RUNNING before cancellation is observed.
Startup_RunningFirst(w) ==
    /\ run[w].pc = "idle"
    /\ LET r == run[w] IN
       IF ~jobExists
       THEN /\ run' = [run EXCEPT ![w] = [r EXCEPT !.pc = "except", !.exc = "Job not found"]]
            /\ UNCHANGED job
       ELSE /\ job' = update_job_status(job, RUNNING)
            /\ run' = [run EXCEPT ![w] = IF job.cancelled
                                         THEN [r EXCEPT !.pc = "done", !.outcome = "returned"]
                                         ELSE [r EXCEPT !.pc = "create_plan"]]
    /\ UNCHANGED <<jobExists, steps, settings, env, now, unit>>

\* execute_job starts: load the job, observe cancellation, set RUNNING; lines 155-169.
Startup(w) ==
    /\ run[w].pc = "idle"
    /\ LET r == run[w] IN
       IF ~jobExists
       THEN /\ run' = [run EXCEPT ![w] = [r EXCEPT !.pc = "except", !.exc = "Job not found"]]
            /\ UNCHANGED job
       ELSE IF job.cancelled
       THEN /\ run' = [run EXCEPT ![w] = [r EXCEPT !.pc = "done", !.outcome = "returned"]]
            /\ UNCHANGED job
       ELSE /\ job' = update_job_status(job, RUNNING)
            /\ run' = [run EXCEPT ![w] = [r EXCEPT !.pc = "create_plan"]]
    /\ UNCHANGED <<jobExists, steps, settings, env, now, unit>>

\* _prepare_messages and cto_agent.create_plan; lines 170-187.
CreatePlan(w) ==
    /\ run[w].pc = "create_plan"
    /\ \/ \E n \in env.plan_lens, t \in env.tokens :
            run' = [run EXCEPT ![w].pc = "bill_plan", ![w].plan = MakePlan(0, n),
                               ![w].tokens = t, ![w].plan_calls = @ + 1]
       \/ run' = [run EXCEPT ![w].pc = "except", ![w].exc = "create_plan failed",
                             ![w].plan_calls = @ + 1]
    /\ UNCHANGED <<job, jobExists, steps, settings, env, now, unit>>

\* The scope that bills the plan; lines 188-209.
BillPlan(w) ==
    /\ run[w].pc = "bill_plan"
    /\ job' = IF run[w].tokens > 0
              THEN increment_costs(job, calculate_cost("model_cto", run[w].tokens))
              ELSE job
    /\ run' = [run EXCEPT ![w].pc = "persist_plan", ![w].tokens = 0]
    /\ UNCHANGED <<jobExists, steps, settings, env, now, unit>>

\* The scope that records one completed "plan" step per planned item; lines 210-217.
PersistPlan(w) ==
    /\ run[w].pc = "persist_plan"
    /\ steps' = steps \o [i \in 1..Len(run[w].plan) |->
                            update_step(create_step(run[w].plan[i], "plan"), "completed")]
    /\ Goto(w, "provision")
    /\ UNCHANGED <<job, jobExists, settings, env, now, unit>>

\* Workspace provisioning; lines 218-226.
Provision(w) ==
    /\ run[w].pc = "provision"
    /\ \/ Goto(w, "initial_progress")
       \/ ~settings.dry_run /\ Raise(w, "clone_or_update_repo failed")
    /\ UNCHANGED <<job, jobExists, steps, settings, env, now, unit>>

\* Record initial progress, then enter the loop: iter(plan); lines 234-239.
InitialProgress(w) ==
    /\ run[w].pc = "initial_progress"
    /\ job' = record_progress(job)
    /\ run' = [run EXCEPT ![w].pc = "step_head", ![w].iter = run[w].plan, ![w].idx = 0]
    /\ UNCHANGED <<jobExists, steps, settings, env, now, unit>>

\* `for step in plan` is exhausted: the loop ends; line 239, 457.
LoopExit(w) ==
    /\ run[w].pc = "step_head"
    /\ run[w].idx = Len(run[w].iter)
    /\ Goto(w, IF settings.dry_run THEN "complete" ELSE "publish")
    /\ UNCHANGED <<job, jobExists, steps, settings, env, now, unit>>

\* Mutant of StepHead: the legacy limits are checked before the stall check.
StepHead_LimitsFirst(w) ==
    /\ run[w].pc = "step_head"
    /\ run[w].idx < Len(run[w].iter)
    /\ LET step == run[w].iter[run[w].idx + 1]
           r == [run[w] EXCEPT !.idx = @ + 1, !.step = step]
       IN  IF check_limits(job, now) # NoError
           THEN /\ run' = [run EXCEPT ![w] = [r EXCEPT !.pc = "except",
                                                       !.exc = check_limits(job, now)]]
                /\ UNCHANGED <<job, steps>>
           ELSE IF check_job_stalled(job)
           THEN /\ job' = update_job_status(job, STALLED)
                /\ run' = [run EXCEPT ![w] = [r EXCEPT !.pc = "done", !.outcome = "returned"]]
                /\ UNCHANGED steps
           ELSE /\ steps' = Append(steps, update_step(create_step(step, "execution"), "running"))
                /\ run' = [run EXCEPT ![w] = [r EXCEPT !.pc = "budget_guard",
                                                       !.step_id = Len(steps) + 1]]
                /\ UNCHANGED job
    /\ UNCHANGED <<jobExists, settings, env, now, unit>>

\* The next item of the iterator and the scope that opens the iteration:
\* stall check, legacy limits, step creation; lines 239-259.  The stall check
\* reads the clock (guards.py line 252) and the legacy limits are given a second
\* reading (line 253): the clock may have advanced between the two.
StepHead(w) ==
    /\ run[w].pc = "step_head"
    /\ run[w].idx < Len(run[w].iter)
    /\ LET step == run[w].iter[run[w].idx + 1]
           r == [run[w] EXCEPT !.idx = @ + 1, !.step = step]
       IN  IF check_job_stalled(job)
           THEN /\ job' = update_job_status(job, STALLED)
                /\ run' = [run EXCEPT ![w] = [r EXCEPT !.pc = "done", !.outcome = "returned"]]
                /\ UNCHANGED <<steps, now>>
           ELSE \E d \in env.clock_steps :
                /\ now + d <= MaxNow
                /\ now' = now + d
                /\ IF check_limits(job, now + d) # NoError
                   THEN /\ run' = [run EXCEPT ![w] = [r EXCEPT !.pc = "except",
                                                    !.exc = check_limits(job, now + d)]]
                        /\ UNCHANGED <<job, steps>>
                   ELSE /\ steps' = Append(steps, update_step(create_step(step, "execution"),
                                                              "running"))
                        /\ run' = [run EXCEPT ![w] = [r EXCEPT !.pc = "budget_guard",
                                                               !.step_id = Len(steps) + 1]]
                        /\ UNCHANGED job
    /\ UNCHANGED <<jobExists, settings, env, unit>>

\* Mutant of BudgetGuardScope: the blocking branch lacks its return.
BudgetGuardScope_NoReturn(w) ==
    /\ run[w].pc = "budget_guard"
    /\ LET budget_check == check_budget(job, estimated_cost) IN
       IF budget_check.should_block
       THEN /\ job' = update_job_status(job, BUDGET_EXCEEDED)
            /\ steps' = [steps EXCEPT ![run[w].step_id] = update_step(@, "failed")]
            /\ Goto(w, "route")
       ELSE /\ job' = IF budget_check.should_warn
                      THEN record_warning(job, budget_check.budget_used_pct)
                      ELSE job
            /\ Goto(w, "route")
            /\ UNCHANGED steps
    /\ UNCHANGED <<jobExists, settings, env, now, unit>>

\* The budget guard scope; lines 261-295.
BudgetGuardScope(w) ==
    /\ run[w].pc = "budget_guard"
    /\ LET budget_check == check_budget(job, estimated_cost) IN
       IF budget_check.should_block
       THEN /\ job' = update_job_status(job, BUDGET_EXCEEDED)
            /\ steps' = [steps EXCEPT ![run[w].step_id] = update_step(@, "failed")]
            /\ Return(w)
       ELSE /\ job' = IF budget_check.should_warn
                      THEN record_warning(job, budget_check.budget_used_pct)
                      ELSE job
            /\ Goto(w, "route")
            /\ UNCHANGED steps
    /\ UNCHANGED <<jobExists, settings, env, now, unit>>

\* Context assembly and router.select_model; lines 296-330.
Route(w) ==
    /\ run[w].pc = "route"
    /\ \/ run' = [run EXCEPT ![w].pc = "primary", ![w].model_name = "routed"]
       \/ Raise(w, "context assembly failed")
    /\ UNCHANGED <<job, jobExists, steps, settings, env, now, unit>>

\* coder_agent.implement_step with the routed model; lines 333-335.
PrimaryCall(w) ==
    /\ run[w].pc = "primary"
    /\ \/ \E t \in env.tokens :
            run' = [run EXCEPT ![w].pc = "apply_diff", ![w].tokens = t,
                               ![w].code_calls = @ + 1]
       \/ run' = [run EXCEPT ![w].pc = "primary_failed", ![w].code_calls = @ + 1]
    /\ UNCHANGED <<job, jobExists, steps, settings, env, now, unit>>

\* Mutant of PrimaryFailure: the failed call is billed at the fixed estimate.
PrimaryFailure_BillsEstimate(w) ==
    /\ run[w].pc = "primary_failed"
    /\ LET step_id == run[w].step_id
           step_model == update_step([steps[step_id] EXCEPT !.retry_count = @ + 1], "failed")
           j1 == [job EXCEPT !.last_failed_step_id = step_id]
           j2 == [j1 EXCEPT !.consecutive_failures =
                      IF j1.last_failed_step_id = step_id THEN @ + 1 ELSE 1]
           loop_check == check_step_retry(j2, step_model, step_id)
       IN  /\ steps' = [steps EXCEPT ![step_id] = step_model]
           /\ job' = increment_costs(j2, estimated_cost)
           /\ Goto(w, IF loop_check.should_replan THEN "replan_scope" ELSE "fallback")
    /\ UNCHANGED <<jobExists, settings, env, now, unit>>

\* Mutant of PrimaryFailure: the fallback model is tried even when the loop
\* detector asks for a replan.
PrimaryFailure_AlwaysFallback(w) ==
    /\ run[w].pc = "primary_failed"
    /\ LET step_id == run[w].step_id
           step_model == update_step([steps[step_id] EXCEPT !.retry_count = @ + 1], "failed")
           j1 == [job EXCEPT !.last_failed_step_id = step_id]
           j2 == [j1 EXCEPT !.consecutive_failures =
                      IF j1.last_failed_step_id = step_id THEN @ + 1 ELSE 1]
       IN  /\ steps' = [steps EXCEPT ![step_id] = step_model]
           /\ job' = j2
           /\ Goto(w, "fallback")
    /\ UNCHANGED <<jobExists, settings, env, now, unit>>

\* Mutant of PrimaryFailure: the failing step is compared with the step that
\* failed before, so a failure of another step restarts the count at 1.
PrimaryFailure_ComparePrevious(w) ==
    /\ run[w].pc = "primary_failed"
    /\ LET step_id == run[w].step_id
           step_model == update_step([steps[step_id] EXCEPT !.retry_count = @ + 1], "failed")
           j1 == [job EXCEPT !.last_failed_step_id = step_id]
           j2 == [j1 EXCEPT !.consecutive_failures =
                      IF job.last_failed_step_id = step_id THEN @ + 1 ELSE 1]
           loop_check == check_step_retry(j2, step_model, step_id)
       IN  /\ steps' = [steps EXCEPT ![step_id] = step_model]
           /\ job' = j2
           /\ Goto(w, IF loop_check.should_replan THEN "replan_scope" ELSE "fallback")
    /\ UNCHANGED <<jobExists, settings, env, now, unit>>

\* The failure-handling scope up to its commit; lines 344-369, 389-390.
PrimaryFailure(w) ==
    /\ run[w].pc = "primary_failed"
    /\ LET step_id == run[w].step_id
           step_model == update_step([steps[step_id] EXCEPT !.retry_count = @ + 1], "failed")
           j1 == [job EXCEPT !.last_failed_step_id = step_id]
           j2 == [j1 EXCEPT !.consecutive_failures =
                      IF j1.last_failed_step_id = step_id THEN @ + 1 ELSE 1]
           loop_check == check_step_retry(j2, step_model, step_id)
       IN  /\ steps' = [steps EXCEPT ![step_id] = step_model]
           /\ job' = j2
           /\ Goto(w, IF loop_check.should_replan THEN "replan_scope" ELSE "fallback")
    /\ UNCHANGED <<jobExists, settings, env, now, unit>>

\* Mutant of ReplanScope: the cap is compared with > instead of >=.
ReplanScope_OffByOne(w) ==
    /\ run[w].pc = "replan_scope"
    /\ LET replan_count == job.replan_count
           max_replans == max_replan_attempts
       IN  IF replan_count > max_replans
           THEN /\ job' = update_job_status(job, FAILED)
                /\ Raise(w, MaxReplansError)
           ELSE /\ job' = [update_job_status(job, REPLANNING) EXCEPT
                               !.replan_count = replan_count + 1,
                               !.consecutive_failures = 0]
                /\ Goto(w, "replan_call")
    /\ UNCHANGED <<jobExists, steps, settings, env, now, unit>>

\* Mutant of ReplanScope: consecutive_failures is reset before the cap is checked.
ReplanScope_ResetFirst(w) ==
    /\ run[w].pc = "replan_scope"
    /\ LET replan_count == job.replan_count
           max_replans == max_replan_attempts
           j == [job EXCEPT !.consecutive_failures = 0]
       IN  IF replan_count >= max_replans
           THEN /\ job' = update_job_status(j, FAILED)
                /\ Raise(w, MaxReplansError)
           ELSE /\ job' = [update_job_status(j, REPLANNING) EXCEPT
                               !.replan_count = replan_count + 1]
                /\ Goto(w, "replan_call")
    /\ UNCHANGED <<jobExists, steps, settings, env, now, unit>>

\* trigger_replanning, its first scope; replanning.py lines 39-62.
ReplanScope(w) ==
    /\ run[w].pc = "replan_scope"
    /\ LET replan_count == job.replan_count
           max_replans == max_replan_attempts
       IN  IF replan_count >= max_replans
           THEN /\ job' = update_job_status(job, FAILED)
                /\ Raise(w, MaxReplansError)
           ELSE /\ job' = [update_job_status(job, REPLANNING) EXCEPT
                               !.replan_count = replan_count + 1,
                               !.consecutive_failures = 0]
                /\ Goto(w, "replan_call")
    /\ UNCHANGED <<jobExists, steps, settings, env, now, unit>>

\* trigger_replanning, cto_agent.create_plan; replanning.py line 105.
ReplanCall(w) ==
    /\ run[w].pc = "replan_call"
    /\ \/ \E n \in env.plan_lens \ {0}, t \in env.tokens :
            run' = [run EXCEPT ![w].pc = "replan_bill", ![w].tokens = t,
                               ![w].new_plan = MakePlan(run[w].gen + 1, n),
                               ![w].plan_calls = @ + 1]
       \/ run' = [run EXCEPT ![w].pc = "except", ![w].exc = "create_plan failed",
                             ![w].plan_calls = @ + 1]
    /\ UNCHANGED <<job, jobExists, steps, settings, env, now, unit>>

\* Mutant of ReplanBill: the replan's plan-generation call is not billed.
ReplanBill_NoBilling(w) ==
    /\ run[w].pc = "replan_bill"
    /\ job' = update_job_status(job, RUNNING)
    /\ run' = [run EXCEPT ![w].pc = "step_head", ![w].plan = run[w].new_plan,
                          ![w].new_plan = <<>>, ![w].gen = @ + 1, ![w].tokens = 0]
    /\ UNCHANGED <<jobExists, steps, settings, env, now, unit>>

\* Mutant of ReplanBill: the loop goes on over the new plan from its first step.
ReplanBill_IteratesNewPlan(w) ==
    /\ run[w].pc = "replan_bill"
    /\ job' = update_job_status(
                  increment_costs(job, calculate_cost("model_cto", run[w].tokens)), RUNNING)
    /\ run' = [run EXCEPT ![w].pc = "step_head", ![w].plan = run[w].new_plan,
                          ![w].iter = run[w].new_plan, ![w].idx = 0,
                          ![w].new_plan = <<>>, ![w].gen = @ + 1, ![w].tokens = 0]
    /\ UNCHANGED <<jobExists, steps, settings, env, now, unit>>

\* Mutant of ReplanBill: the status is not set back to RUNNING.
ReplanBill_StaysReplanning(w) ==
    /\ run[w].pc = "replan_bill"
    /\ job' = increment_costs(job, calculate_cost("model_cto", run[w].tokens))
    /\ run' = [run EXCEPT ![w].pc = "step_head", ![w].plan = run[w].new_plan,
                          ![w].new_plan = <<>>, ![w].gen = @ + 1, ![w].tokens = 0]
    /\ UNCHANGED <<jobExists, steps, settings, env, now, unit>>

\* trigger_replanning, its second scope, and `plan = new_plan; continue`;
\* replanning.py lines 108-131, job_worker.py lines 380-384.
ReplanBill(w) ==
    /\ run[w].pc = "replan_bill"
    /\ job' = update_job_status(
                  increment_costs(job, calculate_cost("model_cto", run[w].tokens)), RUNNING)
    /\ run' = [run EXCEPT ![w].pc = "step_head", ![w].plan = run[w].new_plan,
                          ![w].new_plan = <<>>, ![w].gen = @ + 1, ![w].tokens = 0]
    /\ UNCHANGED <<jobExists, steps, settings, env, now, unit>>

\* coder_agent.implement_step with settings.routing_fallback_model; lines 393-402.
FallbackCall(w) ==
    /\ run[w].pc = "fallback"
    /\ \/ \E t \in env.tokens :
            run' = [run EXCEPT ![w].pc = "apply_diff", ![w].tokens = t,
                               ![w].model_name = "fallback", ![w].code_calls = @ + 1]
       \/ run' = [run EXCEPT ![w].pc = "fallback_failed", ![w].code_calls = @ + 1]
    /\ UNCHANGED <<job, jobExists, steps, settings, env, now, unit>>

\* Mutant of FallbackFailure: the fallback's error leaves the try block.
FallbackFailure_Raises(w) ==
    /\ run[w].pc = "fallback_failed"
    /\ steps' = [steps EXCEPT ![run[w].step_id].retry_count = @ + 1]
    /\ Raise(w, "fallback failed")
    /\ UNCHANGED <<job, jobExists, settings, env, now, unit>>

\* The scope after a failed fallback, then `continue`; lines 405-413.
FallbackFailure(w) ==
    /\ run[w].pc = "fallback_failed"
    /\ steps' = [steps EXCEPT ![run[w].step_id].retry_count = @ + 1]
    /\ Goto(w, "step_head")
    /\ UNCHANGED <<job, jobExists, settings, env, now, unit>>

\* _apply_diff and commit_all; lines 414-419.
ApplyDiff(w) ==
    /\ run[w].pc = "apply_diff"
    /\ \/ Goto(w, "bill_step")
       \/ Raise(w, "apply_diff failed")
    /\ UNCHANGED <<job, jobExists, steps, settings, env, now, unit>>

\* Mutant of BillStep: a successful step leaves consecutive_failures as it is.
BillStep_KeepFailures(w) ==
    /\ run[w].pc = "bill_step"
    /\ LET model_name == "model_coder"
           j1 == IF run[w].tokens > 0
                 THEN increment_costs(job, calculate_cost(model_name, run[w].tokens))
                 ELSE job
           j2 == record_progress(j1)
       IN  /\ job' = j2
           /\ steps' = [steps EXCEPT ![run[w].step_id] =
                            update_step([@ EXCEPT !.retry_count = 0], "completed")]
           /\ run' = [run EXCEPT ![w].pc = "step_head", ![w].tokens = 0,
                                 ![w].model_name = model_name]
    /\ UNCHANGED <<jobExists, settings, env, now, unit>>

\* The success scope: billing, step completed, progress, failures reset; lines 420-456.
BillStep(w) ==
    /\ run[w].pc = "bill_step"
    /\ LET model_name == "model_coder"
           j1 == IF run[w].tokens > 0
                 THEN increment_costs(job, calculate_cost(model_name, run[w].tokens))
                 ELSE job
           j2 == record_progress(j1)
       IN  /\ job' = [j2 EXCEPT !.consecutive_failures = 0]
           /\ steps' = [steps EXCEPT ![run[w].step_id] =
                            update_step([@ EXCEPT !.retry_count = 0], "completed")]
           /\ run' = [run EXCEPT ![w].pc = "step_head", ![w].tokens = 0,
                                 ![w].model_name = model_name]
    /\ UNCHANGED <<jobExists, settings, env, now, unit>>

\* push_branch and open_pull_request when not in dry mode; lines 457-478.
Publish(w) ==
    /\ run[w].pc = "publish"
    /\ \/ Goto(w, "complete")
       \/ Raise(w, "push_branch failed")
    /\ UNCHANGED <<job, jobExists, steps, settings, env, now, unit>>

\* The scope that marks the job COMPLETED; lines 479-488.
Complete(w) ==
    /\ run[w].pc = "complete"
    /\ job' = update_job_status(job, COMPLETED)
    /\ Return(w)
    /\ UNCHANGED <<jobExists, steps, settings, env, now, unit>>

\* Mutant of ExceptHandler: the job is marked FAILED but the exception is swallowed.
ExceptHandler_Swallows(w) ==
    /\ run[w].pc = "except"
    /\ job' = IF jobExists THEN update_job_status(job, FAILED) ELSE job
    /\ run' = [run EXCEPT ![w].pc = "done", ![w].outcome = "returned"]
    /\ UNCHANGED <<jobExists, steps, settings, env, now, unit>>

\* Mutant of ExceptHandler: the job is not marked FAILED before the re-raise.
ExceptHandler_NoMark(w) ==
    /\ run[w].pc = "except"
    /\ run' = [run EXCEPT ![w].pc = "done", ![w].outcome = "raised"]
    /\ UNCHANGED <<job, jobExists, steps, settings, env, now, unit>>

\* except Exception: mark an existing job FAILED and re-raise; lines 489-496.
ExceptHandler(w) ==
    /\ run[w].pc = "except"
    /\ job' = IF jobExists THEN update_job_status(job, FAILED) ELSE job
    /\ run' = [run EXCEPT ![w].pc = "done", ![w].outcome = "raised"]
    /\ UNCHANGED <<jobExists, steps, settings, env, now, unit>>

\* The session_scope blocks of execute_job that are open at worker w's
\* position.  Every scope is one action, entered and left within it, except the
\* failure-handling scope (line 344): its block encloses the call of
\* trigger_replanning (lines 372-378) and is left only by `continue` (line 384)
\* or by the re-raise (line 388), so it is open at the replanner's positions.
OpenScopes(w) ==
    IF run[w].pc \in {"replan_scope", "replan_call", "replan_bill"}
    THEN {"failure_handling"} ELSE {}

\* The positions at which an external generation call is issued:
\* cto_agent.create_plan (job_worker.py line 186, replanning.py line 105) and
\* coder_agent.implement_step (lines 334 and 395).
GenerationCalls == {"create_plan", "replan_call", "primary", "fallback"}

\* One step of the execute_job call of worker w.
Step(w) ==
    \/ Startup(w)
    \/ CreatePlan(w)
    \/ BillPlan(w)
    \/ PersistPlan(w)
    \/ Provision(w)
    \/ InitialProgress(w)
    \/ LoopExit(w)
    \/ StepHead(w)
    \/ BudgetGuardScope(w)
    \/ Route(w)
    \/ PrimaryCall(w)
    \/ PrimaryFailure(w)
    \/ ReplanScope(w)
    \/ ReplanCall(w)
    \/ ReplanBill(w)
    \/ FallbackCall(w)
    \/ FallbackFailure(w)
    \/ ApplyDiff(w)
    \/ BillStep(w)
    \/ Publish(w)
    \/ Complete(w)
    \/ ExceptHandler(w)

\* One execution of execute_job on one worker.
Next == Tick \/ \E w \in Solo : Step(w)

Spec == Init /\ [][Next]_vars

\* The task queue: deliveries of the same job to two workers, which may overlap,
\* and redeliveries after a call has ended.  The job is an existing, not
\* cancelled job with the larger budget, with the clock stopped.
InitQueue ==
    /\ job \in Jobs({FALSE}, {8}, {50})
    /\ jobExists = TRUE
    /\ steps = <<>>
    /\ settings = [dry_run |-> FALSE]
    /\ env = [plan_lens |-> 1..MaxQueuePlanLen, tokens |-> {MaxCallCost},
              clock_steps |-> {0}]
    /\ now = 0
    /\ run = [w \in Workers |-> FreshRun(0)]
    /\ unit = NoUnit

NextQueue == \E w \in Workers : Step(w) \/ Deliver(w)

QueueSpec == InitQueue /\ [][NextQueue]_vars

\* One execution under the scheduling the code has: a worker that can take a
\* step of its call eventually takes it (every collaborator call returns or raises).
LiveSpec == Spec /\ WF_vars(\E w \in Solo : Step(w))

\* ------------------------------------------------- the guards on their own
\* A JobModel as the unit tests build it: only the fields a guard reads vary.
BaseJob ==
    [status |-> RUNNING, cancelled |-> FALSE, cost_usd |-> 0, budget_usd |-> 4,
     requests_made |-> 0, max_requests |-> 50, replan_count |-> 0,
     consecutive_failures |-> 0, last_failed_step_id |-> None,
     budget_warnings_sent |-> <<>>, started_at |-> None, last_progress_at |-> None,
     max_minutes |-> JobMaxMinutes]

\* What a call that returns None leaves as its result.
NoResult == [status |-> "none"]

\* budget_usd of the jobs the BudgetGuard is called on: negative, zero, 1 USD, 2.5 USD.
GuardBudgets == {-2, 0, 4, 10}
\* estimated_step_cost: the default 0.0 up to the controller's 0.5 USD.
Estimates == 0..estimated_cost
\* Thresholds given to record_warning: 0.5, 0.75, and a used fraction such as
\* execute_job passes (0.625).
Thresholds == {<<1, 2>>, <<3, 4>>, <<5, 8>>}

\* Everything the guards do not read.
GuardFrame ==
    /\ jobExists = TRUE
    /\ steps = <<>>
    /\ settings = [dry_run |-> TRUE]
    /\ env = [plan_lens |-> {}, tokens |-> {}, clock_steps |-> {0}]
    /\ run = [w \in Workers |-> FreshRun(0)]

\* TestBudgetGuard: a job with some spend, budget and warnings already sent.
BudgetInit ==
    /\ job \in {[BaseJob EXCEPT !.cost_usd = c, !.budget_usd = b,
                                  !.budget_warnings_sent = ws] :
                   c \in {None} \cup 0..MaxGuardCost, b \in GuardBudgets,
                   ws \in {<<>>, << <<1, 2>> >>, << <<1, 2>>, <<3, 4>> >>}}
    /\ now = 0
    /\ unit = [NoUnit EXCEPT !.suite = "BudgetGuard"]
    /\ GuardFrame

\* budget_guard.check_budget(job, est)
CallCheckBudget ==
    /\ unit.suite = "BudgetGuard" /\ unit.calls < MaxGuardCalls
    /\ \E est \in Estimates :
         unit' = [unit EXCEPT !.call = "check_budget", !.arg = est,
                              !.result = check_budget(job, est), !.calls = @ + 1]
    /\ UNCHANGED <<job, jobExists, steps, settings, env, now, run>>

\* budget_guard.record_warning(job, t, session); the result notes whether the
\* list changed.
CallRecordWarning ==
    /\ unit.suite = "BudgetGuard" /\ unit.calls < MaxGuardCalls
    /\ \E t \in Thresholds :
         /\ job' = record_warning(job, t)
         /\ unit' = [unit EXCEPT !.call = "record_warning", !.arg = t,
                                 !.result = [status |-> "none",
                                             appended |-> job' # job],
                                 !.recorded = @ \cup {t}, !.calls = @ + 1]
    /\ UNCHANGED <<jobExists, steps, settings, env, now, run>>

\* The job is billed between two calls of the guard.
Spend ==
    /\ unit.suite = "BudgetGuard" /\ unit.calls < MaxGuardCalls
    /\ \E c \in 1..MaxCallCost :
         LET cost == IF job.cost_usd = None THEN 0 ELSE job.cost_usd IN
         /\ cost + c <= MaxGuardCost
         /\ job' = [job EXCEPT !.cost_usd = cost + c]
         /\ unit' = [unit EXCEPT !.call = "increment_costs", !.arg = c,
                                 !.result = NoResult, !.calls = @ + 1]
    /\ UNCHANGED <<jobExists, steps, settings, env, now, run>>

\* TestLoopDetector, retries: a job with its failure tracking and a step with its
\* retry count; step ids are 1 and 2.
RetryInit ==
    /\ job \in {[BaseJob EXCEPT !.last_failed_step_id = l, !.consecutive_failures = c] :
                   l \in {None, 1, 2}, c \in {None} \cup 0..MaxFailures}
    /\ now = 0
    /\ unit \in {[NoUnit EXCEPT !.suite = "LoopDetector.retry",
                                 !.step = [id |-> i, retry_count |-> rc,
                                           edit_history |-> <<>>]] :
                    i \in {1, 2}, rc \in {None} \cup 0..(max_step_retries + 1)}
    /\ GuardFrame

\* loop_detector.check_step_retry(job, step)
CallCheckStepRetry ==
    /\ unit.suite = "LoopDetector.retry" /\ unit.calls < MaxGuardCalls
    /\ unit' = [unit EXCEPT !.call = "check_step_retry", !.arg = unit.step.id,
                            !.result = check_step_retry(job, unit.step, unit.step.id),
                            !.calls = @ + 1]
    /\ UNCHANGED <<job, jobExists, steps, settings, env, now, run>>

\* The step fails again, as the controller records it; job_worker.py lines 349-359.
FailStep ==
    /\ unit.suite = "LoopDetector.retry" /\ unit.calls < MaxGuardCalls
    /\ LET rc == IF unit.step.retry_count = None THEN 0 ELSE unit.step.retry_count
           cf == IF job.consecutive_failures = None THEN 0 ELSE job.consecutive_failures
       IN  /\ rc <= max_step_retries /\ cf < MaxFailures
           /\ job' = [job EXCEPT !.last_failed_step_id = unit.step.id,
                                 !.consecutive_failures = cf + 1]
           /\ unit' = [unit EXCEPT !.step.retry_count = rc + 1, !.call = "fail_step",
                                   !.arg = unit.step.id, !.result = NoResult,
                                   !.calls = @ + 1]
    /\ UNCHANGED <<jobExists, steps, settings, env, now, run>>

\* File paths, numbered.
Paths == {1, 2}

\* Edit histories of a step: n distinct files in order; a run of path 1 followed
\* by a run of path 2; repeats of path 1 with one entry of path 2.  None is
\* longer than record_file_edit leaves it.
Histories ==
    {[i \in 1..n |-> i] : n \in 0..max_edit_history}
    \cup UNION {{[i \in 1..n |-> IF i <= k THEN 1 ELSE 2] : k \in 0..n} :
                 n \in 1..max_edit_history}
    \cup UNION {{[i \in 1..n |-> IF i = h THEN 2 ELSE 1] : h \in 1..n} :
                 n \in 1..MaxHoleLen}

\* TestLoopDetector, file edits: a step with its edit history.
EditInit ==
    /\ job = BaseJob
    /\ now = 0
    /\ unit \in {[NoUnit EXCEPT !.suite = "LoopDetector.edits",
                                 !.step = [id |-> 1, retry_count |-> 0,
                                           edit_history |-> h]] : h \in Histories}
    /\ GuardFrame

\* loop_detector.check_file_edit_loop(step, filepath)
CallCheckFileEditLoop ==
    /\ unit.suite = "LoopDetector.edits" /\ unit.calls < MaxGuardCalls
    /\ \E f \in Paths :
         unit' = [unit EXCEPT !.call = "check_file_edit_loop", !.arg = f,
                              !.result = [status |-> "none",
                                          value |-> check_file_edit_loop(unit.step, f)],
                              !.calls = @ + 1]
    /\ UNCHANGED <<job, jobExists, steps, settings, env, now, run>>

\* loop_detector.record_file_edit(step, filepath, session)
CallRecordFileEdit ==
    /\ unit.suite = "LoopDetector.edits" /\ unit.calls < MaxGuardCalls
    /\ \E f \in Paths :
         unit' = [unit EXCEPT !.step = record_file_edit(unit.step, f),
                              !.call = "record_file_edit", !.arg = f,
                              !.result = NoResult, !.calls = @ + 1]
    /\ UNCHANGED <<job, jobExists, steps, settings, env, now, run>>

\* TestStallDetector: a job not started, or started and with or without
\* recorded progress, at some time of the clock.
StallInit ==
    /\ now \in 0..MaxGuardNow
    /\ job \in {[BaseJob EXCEPT !.started_at = st, !.last_progress_at = lp,
                                  !.max_minutes = mm] :
                   st \in {None} \cup 0..now, lp \in {None} \cup 0..now,
                   mm \in {JobMaxMinutes, MaxGuardNow}}
    /\ unit = [NoUnit EXCEPT !.suite = "StallDetector"]
    /\ GuardFrame

\* stall_detector.check_job_stalled(job)
CallCheckJobStalled ==
    /\ unit.suite = "StallDetector" /\ unit.calls < MaxGuardCalls
    /\ unit' = [unit EXCEPT !.call = "check_job_stalled", !.arg = 0,
                            !.result = [status |-> "none",
                                        value |-> check_job_stalled(job)],
                            !.calls = @ + 1]
    /\ UNCHANGED <<job, jobExists, steps, settings, env, now, run>>

\* stall_detector.record_progress(job, session)
CallRecordProgress ==
    /\ unit.suite = "StallDetector" /\ unit.calls < MaxGuardCalls
    /\ job' = record_progress(job)
    /\ unit' = [unit EXCEPT !.call = "record_progress", !.arg = 0,
                            !.result = NoResult, !.calls = @ + 1]
    /\ UNCHANGED <<jobExists, steps, settings, env, now, run>>

\* Time passes between two calls of the StallDetector.
GuardTick ==
    /\ unit.suite = "StallDetector" /\ now < MaxGuardNow
    /\ now' = now + 1
    /\ unit' = [unit EXCEPT !.call = "none", !.result = NoResult]
    /\ UNCHANGED <<job, jobExists, steps, settings, env, run>>

GuardInit == BudgetInit \/ RetryInit \/ EditInit \/ StallInit

GuardNext ==
    \/ CallCheckBudget
    \/ CallRecordWarning
    \/ Spend
    \/ CallCheckStepRetry
    \/ FailStep
    \/ CallCheckFileEditLoop
    \/ CallRecordFileEdit
    \/ CallCheckJobStalled
    \/ CallRecordProgress
    \/ GuardTick

\* The guards called directly, as the unit tests call them.
GuardSpec == GuardInit /\ [][GuardNext]_vars

\* ------------------------------------------------- the router on its own
\* Words and phrases a step's title, rationale and acceptance may hold: keywords
\* of tiers 1, 2, 5 and 8 and two words that are no keyword.
Vocabulary == {"test", "refactor", "workflow", "security", "tests", "widget"}

\* step["complexity"]: absent, not an int, or an int inside or outside 1..10.
Complexities ==
    {[kind |-> "absent", value |-> 0], [kind |-> "other", value |-> 0]}
    \cup {[kind |-> "int", value |-> v] : v \in {-5, 0, 1, 3, 4, 7, 8, 10, 11, 99}}

\* Step dicts: with an integer complexity the text is empty or holds a keyword
\* of tier 8; without one it is any set of words.
RouterSteps ==
    {[complexity |-> c, text |-> t] :
        c \in {x \in Complexities : x.kind = "int"}, t \in {{}, {"security"}}}
    \cup {[complexity |-> c, text |-> t] :
        c \in {x \in Complexities : x.kind # "int"}, t \in SUBSET Vocabulary}

\* Token estimates, scaled.
TokenCounts == 0..MaxTokens

\* test_llm_router: a step dict, a job with budget and spend, routing on or off.
RouterInit ==
    /\ job \in {[BaseJob EXCEPT !.cost_usd = c, !.budget_usd = b] @@ [model_coder |-> mc] :
                   c \in {None, 0, 6}, b \in Budgets, mc \in {"", "job_model_coder"}}
    /\ settings \in [dry_run : {TRUE}, llm_routing_enabled : BOOLEAN]
    /\ unit \in {[NoUnit EXCEPT !.suite = "LLMRouter", !.step = s] : s \in RouterSteps}
    /\ now = 0
    /\ jobExists = TRUE
    /\ steps = <<>>
    /\ env = [plan_lens |-> {}, tokens |-> {}, clock_steps |-> {0}]
    /\ run = [w \in Workers |-> FreshRun(0)]

\* router.select_model(step, job, estimated_tokens_in, estimated_tokens_out)
CallSelectModel ==
    /\ unit.suite = "LLMRouter" /\ unit.calls < MaxGuardCalls
    /\ \E tin \in TokenCounts, tout \in TokenCounts :
         unit' = [unit EXCEPT !.call = "select_model", !.arg = <<tin, tout>>,
                              !.result = select_model(unit.step, job,
                                             settings.llm_routing_enabled, tin, tout),
                              !.calls = @ + 1]
    /\ UNCHANGED <<job, jobExists, steps, settings, env, now, run>>

RouterNext == CallSelectModel

\* The router called directly, as its unit tests call it.
RouterSpec == RouterInit /\ [][RouterNext]_vars

\* ------------------------------------------------------------------ claims
\* Worker w takes a step of its call.
Acts(w) == run'[w] # run[w]
Ended(w) == run[w].pc = "done"

\* C1: every run of execute_job on an existing, non-cancelled job eventually
\* ends, and when it has ended the job status is COMPLETED, FAILED, STALLED or
\* BUDGET_EXCEEDED, never PENDING, RUNNING or REPLANNING.
C1_EndsTerminal ==
    /\ <>(\A w \in Solo : Ended(w))
    /\ [](\A w \in Solo : Ended(w) /\ jobExists /\ ~job.cancelled
                            => job.status \in Terminal)

\* C1 witness: a run that ended because the plan generation of a replan raised,
\* while the status was REPLANNING.
C1_Witness ==
    /\ Ended(1) /\ jobExists /\ ~job.cancelled
    /\ run[1].exc = "create_plan failed" /\ run[1].plan # <<>>
    /\ job.status = FAILED

\* C2: after a successful replan the loop executes steps of the new plan: the
\* step an iteration works on belongs to the plan the controller holds.
C2_IteratesNewPlan ==
    \A w \in Workers : run[w].pc = "budget_guard" => run[w].step.gen = run[w].gen

\* C3: job.replan_count <= max_replan_attempts in every reachable state, under
\* sequential and overlapping deliveries with atomic scopes.
C3_ReplanCountBounded == job.replan_count <= max_replan_attempts

\* C3 witness: two calls overlap, the count is at the cap and one call has just
\* been refused a replan.
C3_Witness ==
    /\ job.replan_count = max_replan_attempts
    /\ \A w \in Workers : run[w].pc \notin {"off", "idle", "done"}
    /\ \E w \in Workers : run[w].pc = "except" /\ run[w].exc = MaxReplansError
    /\ \E w \in Workers : run[w].gen > 0

\* C4: trigger_replanning called with replan_count at or over the cap marks the
\* job FAILED and raises; execute_job propagates the error to its caller; no
\* plan-generation call is made; replan_count and consecutive_failures keep
\* their values.
C4_RefusedReplan ==
    /\ [][\A w \in Workers :
            run[w].pc = "replan_scope" /\ job.replan_count >= max_replan_attempts /\ Acts(w)
            => /\ job'.status = FAILED
               /\ run'[w].pc = "except" /\ run'[w].exc = MaxReplansError
               /\ job'.replan_count = job.replan_count
               /\ job'.consecutive_failures = job.consecutive_failures
               /\ run'[w].plan_calls = run[w].plan_calls]_vars
    /\ [][\A w \in Workers :
            run[w].pc = "except" /\ run[w].exc = MaxReplansError /\ Acts(w)
            => /\ Ended(w)' /\ run'[w].outcome = "raised" /\ run'[w].exc = MaxReplansError
               /\ job'.status = FAILED
               /\ job'.replan_count = job.replan_count
               /\ job'.consecutive_failures = job.consecutive_failures
               /\ run'[w].plan_calls = run[w].plan_calls]_vars

\* C4 witness: the call has ended by raising the cap error.
C4_Witness ==
    /\ Ended(1) /\ run[1].outcome = "raised" /\ run[1].exc = MaxReplansError
    /\ job.status = FAILED /\ job.replan_count = max_replan_attempts

\* The edges of the state machine of section 4.6.
ListedEdges ==
    {<<PENDING, RUNNING>>, <<RUNNING, REPLANNING>>, <<REPLANNING, RUNNING>>}
        \cup {<<RUNNING, t>> : t \in Terminal}

\* C5 as stated: within one execution the status changes only along the listed
\* edges; a terminal status is entered only from RUNNING.
C5_OnlyListedEdges ==
    [][job'.status # job.status => <<job.status, job'.status>> \in ListedEdges]_vars

\* C5 as amended: the status changes only along the listed edges or along
\* REPLANNING -> FAILED, taken when the plan generation of a replan raises.
C5_EdgesWithReplanFailure ==
    [][job'.status # job.status
        => \/ <<job.status, job'.status>> \in ListedEdges
           \/ /\ <<job.status, job'.status>> = <<REPLANNING, FAILED>>
              /\ \E w \in Workers : run[w].pc = "except" /\ run[w].exc = "create_plan failed"]_vars

\* C5 witness: the job went from REPLANNING to FAILED.
C5_Witness ==
    /\ job.status = FAILED /\ Ended(1)
    /\ run[1].exc = "create_plan failed" /\ run[1].plan # <<>>

\* C6: once the status is terminal no later controller action changes it, a
\* redelivery of execute_job included.
C6_TerminalIsFinal ==
    [][job.status \in Terminal => job'.status = job.status]_vars

\* C7: a job found cancelled when execute_job loads it makes the run a silent
\* no-op: job and steps are unchanged, no generation call is made, nothing is raised.
C7_CancelledNoOp ==
    [][\A w \in Workers :
         run[w].pc = "idle" /\ jobExists /\ job.cancelled /\ Acts(w)
         => /\ job' = job /\ steps' = steps
            /\ Ended(w)' /\ run'[w].outcome = "returned" /\ run'[w].exc = NoError
            /\ run'[w].plan_calls = 0 /\ run'[w].code_calls = 0]_vars

\* C7 witness: the run on a cancelled job has ended.
C7_Witness ==
    /\ Ended(1) /\ jobExists /\ job.cancelled /\ job.status = PENDING /\ steps = <<>>

\* The StallDetector reports the job stalled at the start of an iteration of w.
StalledAtHead(w) ==
    /\ run[w].pc = "step_head" /\ run[w].idx < Len(run[w].iter)
    /\ check_job_stalled(job)

\* C8: a job reported stalled at the start of an iteration becomes STALLED and
\* the run stops without raising: no step record is created, no code-generation
\* call follows, and the status is not overwritten.
C8_StalledStops ==
    /\ [][\A w \in Workers :
            StalledAtHead(w) /\ Acts(w)
            => /\ job'.status = STALLED /\ steps' = steps
               /\ Ended(w)' /\ run'[w].outcome = "returned" /\ run'[w].exc = NoError
               /\ run'[w].code_calls = run[w].code_calls]_vars
    /\ [](job.status = STALLED
            => \A w \in Solo : Ended(w) /\ run[w].outcome = "returned")
    /\ [][job.status = STALLED => job'.status = STALLED]_vars

\* C8 witness: the run has ended STALLED after at least one executed step.
C8_Witness ==
    /\ job.status = STALLED /\ Ended(1) /\ run[1].idx > 1

\* check_budget with the fixed estimate blocks the step w has just created.
BlockedAtGuard(w) ==
    /\ run[w].pc = "budget_guard"
    /\ check_budget(job, estimated_cost).should_block

\* C9: when check_budget with the fixed estimate blocks, the job becomes
\* BUDGET_EXCEEDED, the step just created is marked failed, the run stops
\* without raising and makes no code-generation call for this or a later step.
C9_BlockedStops ==
    /\ [][\A w \in Workers :
            BlockedAtGuard(w) /\ Acts(w)
            => /\ job'.status = BUDGET_EXCEEDED
               /\ run[w].step_id = Len(steps) /\ steps[run[w].step_id].status = "running"
               /\ steps' = [steps EXCEPT ![run[w].step_id].status = "failed"]
               /\ Ended(w)' /\ run'[w].outcome = "returned" /\ run'[w].exc = NoError
               /\ run'[w].code_calls = run[w].code_calls]_vars
    /\ [](job.status = BUDGET_EXCEEDED
            => \A w \in Solo : Ended(w) /\ run[w].outcome = "returned")

\* C9 witness: the run has ended BUDGET_EXCEEDED at a step after the first.
C9_Witness ==
    /\ job.status = BUDGET_EXCEEDED /\ Ended(1) /\ run[1].idx > 1
    /\ steps[Len(steps)].status = "failed"

LimitErrors == {"Budget limit exceeded", "Request limit exceeded"}

\* The job is not stalled and over a legacy cap at the start of an iteration of w.
OverLimitAtHead(w) ==
    /\ run[w].pc = "step_head" /\ run[w].idx < Len(run[w].iter)
    /\ ~check_job_stalled(job)
    /\ job.cost_usd >= job.budget_usd \/ job.requests_made >= job.max_requests

\* C10: a job that is not stalled and has cost_usd >= budget_usd or
\* requests_made >= max_requests at the start of an iteration fails fast: a fatal
\* error reaches the caller, the status becomes FAILED, no step record is
\* created and no code-generation call is made in that iteration.
C10_LegacyCapsFailFast ==
    /\ [][\A w \in Workers :
            OverLimitAtHead(w) /\ Acts(w)
            => /\ run'[w].pc = "except" /\ run'[w].exc \in LimitErrors
               /\ steps' = steps
               /\ run'[w].code_calls = run[w].code_calls]_vars
    /\ [][\A w \in Workers :
            run[w].pc = "except" /\ run[w].exc \in LimitErrors /\ Acts(w)
            => /\ Ended(w)' /\ run'[w].outcome = "raised" /\ run'[w].exc = run[w].exc
               /\ job'.status = FAILED /\ steps' = steps
               /\ run'[w].code_calls = run[w].code_calls]_vars

\* C10 witness: the run has ended FAILED on the budget cap, with spend equal
\* to the budget.
C10_Witness ==
    /\ Ended(1) /\ run[1].outcome = "raised" /\ run[1].exc = "Budget limit exceeded"
    /\ job.status = FAILED /\ job.cost_usd = job.budget_usd

WallClockError == "Wall-clock limit exceeded"

\* Worker w is about to start an iteration of a started job.
AtHead(w) ==
    /\ run[w].pc = "step_head" /\ run[w].idx < Len(run[w].iter)
    /\ job.started_at # None

\* C11 as stated: elapsed >= max_minutes at the start of an iteration makes the
\* run fail fast on the wall-clock cap: the fatal error is raised, the job FAILED.
C11_WallClockFailsFast ==
    [][\A w \in Workers :
         AtHead(w) /\ now - job.started_at >= job.max_minutes /\ Acts(w)
         => run'[w].pc = "except" /\ run'[w].exc = WallClockError]_vars

\* C11 as amended: elapsed > max_minutes at the start of an iteration is caught
\* by the stall check, which runs first: the job becomes STALLED and the run
\* returns without raising.  elapsed = max_minutes trips neither check.  The
\* wall-clock cap raises (fatal, job FAILED) only when elapsed <= max_minutes at
\* the stall check's reading of the clock and > max_minutes at the later reading
\* given to the legacy limits.
C11_WallClockStalls ==
    /\ [][\A w \in Workers :
            AtHead(w) /\ now - job.started_at > job.max_minutes /\ Acts(w)
            => /\ job'.status = STALLED /\ steps' = steps
               /\ Ended(w)' /\ run'[w].outcome = "returned" /\ run'[w].exc = NoError]_vars
    /\ [][\A w \in Workers :
            AtHead(w) /\ now - job.started_at = job.max_minutes /\ Acts(w) /\ now' = now
            /\ ~check_job_stalled(job)
            /\ job.cost_usd < job.budget_usd /\ job.requests_made < job.max_requests
            => run'[w].pc = "budget_guard" /\ job' = job]_vars
    /\ [][\A w \in Workers :
            run'[w].exc = WallClockError /\ run[w].exc # WallClockError
            => /\ AtHead(w) /\ run'[w].pc = "except"
               /\ now - job.started_at <= job.max_minutes
               /\ now' - job.started_at > job.max_minutes]_vars
    /\ [][\A w \in Workers :
            run[w].pc = "except" /\ run[w].exc = WallClockError /\ Acts(w)
            => Ended(w)' /\ run'[w].outcome = "raised" /\ job'.status = FAILED]_vars

\* C11 witness: the run has ended STALLED on the wall-clock allowance alone:
\* elapsed > max_minutes while the last progress is within the stall timeout.
C11_Witness ==
    /\ job.status = STALLED /\ Ended(1) /\ run[1].outcome = "returned"
    /\ now - job.started_at > job.max_minutes
    /\ job.last_progress_at # None
    /\ now - job.last_progress_at <= stall_timeout_minutes

\* The warning tier a ratio lies in: [0.5, 0.75) or [0.75, hard stop).
TierOf(pct) ==
    IF Ge(pct, budget_hard_stop_threshold) THEN "none"
    ELSE IF Ge(pct, <<3, 4>>) THEN WARNING_75
    ELSE IF Ge(pct, <<1, 2>>) THEN WARNING_50
    ELSE "none"

\* C12: over one execution the warning of each threshold fires at most once:
\* once a warning has been recorded in a tier, check_budget at a later step in
\* the same tier does not set should_warn; budget_warnings_sent only ever holds
\* the thresholds 0.5 and 0.75.
C12_WarnsOncePerTier ==
    /\ [](\A i \in 1..Len(job.budget_warnings_sent) :
             \/ Eq(job.budget_warnings_sent[i], <<1, 2>>)
             \/ Eq(job.budget_warnings_sent[i], <<3, 4>>))
    /\ [][\A w \in Workers :
            run[w].pc = "budget_guard" /\ Acts(w)
            /\ check_budget(job, estimated_cost).should_warn
            => \A i \in 1..Len(job.budget_warnings_sent) :
                  TierOf(job.budget_warnings_sent[i])
                      # check_budget(job, estimated_cost).status]_vars

\* The rational the projected spend of the last check_budget call is of the budget.
Projected == (IF job.cost_usd = None THEN 0 ELSE job.cost_usd) + unit.arg

\* C13: check_budget returns the one status its pct = (cost_usd + estimate) /
\* budget_usd selects (pct = 0 when budget_usd <= 0): OK below 0.5, WARNING_50 in
\* [0.5, 0.75), WARNING_75 in [0.75, hard stop), CRITICAL_90 in [hard stop, 1),
\* EXCEEDED from 1; should_block iff CRITICAL_90 or EXCEEDED; remaining_usd =
\* budget_usd - (cost_usd + estimate).
C13_BudgetClassification ==
    unit.call = "check_budget" =>
        LET p == Projected
            b == job.budget_usd
            r == unit.result
            hn == budget_hard_stop_threshold[1]
            hd == budget_hard_stop_threshold[2]
        IN  /\ r.status \in {OK, WARNING_50, WARNING_75, CRITICAL_90, EXCEEDED}
            /\ b <= 0 => r.status = OK /\ Eq(r.budget_used_pct, <<0, 1>>)
            /\ b > 0 =>
                /\ Eq(r.budget_used_pct, <<p, b>>)
                /\ r.status = OK <=> 2 * p < b
                /\ r.status = WARNING_50 <=> 2 * p >= b /\ 4 * p < 3 * b
                /\ r.status = WARNING_75 <=> 4 * p >= 3 * b /\ hd * p < hn * b
                /\ r.status = CRITICAL_90 <=> hd * p >= hn * b /\ p < b
                /\ r.status = EXCEEDED <=> p >= b
            /\ r.should_block <=> r.status \in {CRITICAL_90, EXCEEDED}
            /\ r.remaining_usd = b - p

\* C13 witness: the estimate moves a job from WARNING_50 to the 0.75 boundary.
C13_Witness ==
    /\ unit.call = "check_budget" /\ unit.arg > 0
    /\ unit.result.status = WARNING_75 /\ Eq(unit.result.budget_used_pct, <<3, 4>>)
    /\ check_budget(job, 0).status = WARNING_50

\* C14: after record_warning(job, t) for t in {0.5, 0.75}, no later check_budget
\* sets should_warn while the status is the tier of t, whatever the cost;
\* should_warn is set only for WARNING_50 / WARNING_75 whose threshold is not yet
\* in budget_warnings_sent.
C14_WarnedTierSilent ==
    unit.call = "check_budget" =>
        LET r == unit.result IN
        /\ <<1, 2>> \in unit.recorded /\ r.status = WARNING_50 => ~r.should_warn
        /\ <<3, 4>> \in unit.recorded /\ r.status = WARNING_75 => ~r.should_warn
        /\ r.should_warn =>
              \/ r.status = WARNING_50 /\ ~InList(<<1, 2>>, job.budget_warnings_sent)
              \/ r.status = WARNING_75 /\ ~InList(<<3, 4>>, job.budget_warnings_sent)

\* C14 witness: 0.5 was recorded, the job was billed, and a check in the
\* WARNING_50 tier stays silent.
C14_Witness ==
    /\ unit.call = "check_budget" /\ unit.calls = MaxGuardCalls
    /\ unit.recorded = {<<1, 2>>}
    /\ unit.result.status = WARNING_50 /\ ~unit.result.should_warn
    /\ ~Eq(unit.result.budget_used_pct, <<1, 2>>)

\* C15: record_warning(job, t) appends t when absent and leaves
\* budget_warnings_sent unchanged when present; over any sequence of calls the
\* list has no duplicate and never loses an entry.
C15_RecordWarningIdempotent ==
    /\ [][unit'.call = "record_warning" /\ unit'.calls # unit.calls
          => LET t == unit'.arg
                 old == job.budget_warnings_sent
                 new == job'.budget_warnings_sent
             IN  /\ InList(t, old) => new = old
                 /\ ~InList(t, old) => new = Append(old, t)]_vars
    /\ [](\A i, k \in 1..Len(job.budget_warnings_sent) :
             i # k => ~Eq(job.budget_warnings_sent[i], job.budget_warnings_sent[k]))
    /\ [][/\ Len(job'.budget_warnings_sent) >= Len(job.budget_warnings_sent)
          /\ SubSeq(job'.budget_warnings_sent, 1, Len(job.budget_warnings_sent))
                 = job.budget_warnings_sent]_vars

\* C15 witness: a threshold recorded a second time left the two-entry list as it was.
C15_Witness ==
    /\ unit.call = "record_warning" /\ ~unit.result.appended
    /\ unit.arg \in unit.recorded /\ unit.calls = MaxGuardCalls
    /\ Len(job.budget_warnings_sent) = 2 /\ Cardinality(unit.recorded) = 2

\* C16: check_step_retry classifies by strict priority, with consecutive =
\* job.consecutive_failures if job.last_failed_step_id = step.id else 0:
\* retry_count >= max_step_retries gives LOOP_DETECTED; else consecutive >= 2
\* gives LOOP_DETECTED; else retry_count >= 2 gives RETRY_WARNING; else OK.
\* should_replan is true iff the status is LOOP_DETECTED.
C16_RetryClassification ==
    unit.call = "check_step_retry" =>
        LET rc == IF unit.step.retry_count = None THEN 0 ELSE unit.step.retry_count
            cf == IF job.consecutive_failures = None THEN 0 ELSE job.consecutive_failures
            same == job.last_failed_step_id = unit.step.id
            looping == rc >= max_step_retries \/ (same /\ cf >= 2)
            r == unit.result
        IN  /\ r.status = LOOP_DETECTED <=> looping
            /\ r.status = RETRY_WARNING <=> ~looping /\ rc >= 2
            /\ r.status = LOOP_OK <=> ~looping /\ rc < 2
            /\ r.should_replan <=> r.status = LOOP_DETECTED
            /\ r.retry_count = rc

\* C16 witness: two consecutive failures of the same step give LOOP_DETECTED
\* with retry_count = 1.
C16_Witness ==
    /\ unit.call = "check_step_retry" /\ unit.result.status = LOOP_DETECTED
    /\ unit.result.should_replan
    /\ unit.step.retry_count = 1 /\ job.consecutive_failures = 2
    /\ job.last_failed_step_id = unit.step.id

\* C17: check_file_edit_loop(step, filepath) is true iff the history has at
\* least max_file_edits_per_step entries and its last max_file_edits_per_step
\* entries are all filepath; older entries never count.
C17_EditLoopWindow ==
    unit.call = "check_file_edit_loop" =>
        LET h == unit.step.edit_history
            m == max_file_edits_per_step
        IN  unit.result.value <=>
                /\ Len(h) >= m
                /\ \A i \in (Len(h) - m + 1)..Len(h) : h[i] = unit.arg

\* C17 witness: a loop is reported on a history whose older entries are another path.
C17_Witness ==
    /\ unit.call = "check_file_edit_loop" /\ unit.result.value
    /\ Len(unit.step.edit_history) > max_file_edits_per_step
    /\ unit.step.edit_history[1] # unit.arg

\* C18: after any number of record_file_edit calls edit_history has at most 20
\* entries, its last entry is the path just recorded, the entries keep their
\* order, and on overflow the oldest entries are dropped.
C18_EditHistoryCapped ==
    /\ [](unit.suite = "LoopDetector.edits"
             => Len(unit.step.edit_history) <= max_edit_history)
    /\ [][unit'.call = "record_file_edit" /\ unit'.calls # unit.calls
          => LET all == Append(unit.step.edit_history, unit'.arg)
                 new == unit'.step.edit_history
                 drop == Len(all) - Len(new)
             IN  /\ Len(new) >= 1 /\ new[Len(new)] = unit'.arg
                 /\ drop = IF Len(all) > max_edit_history
                           THEN Len(all) - max_edit_history ELSE 0
                 /\ \A i \in 1..Len(new) : new[i] = all[i + drop]]_vars

\* C18 witness: two calls on a full history of distinct files dropped files 1
\* and 2 and kept the rest in order, the recorded paths last.
C18_Witness ==
    /\ unit.call = "record_file_edit" /\ unit.calls = 2
    /\ Len(unit.step.edit_history) = max_edit_history
    /\ unit.step.edit_history[1] = 3
    /\ unit.step.edit_history[max_edit_history - 2] = max_edit_history
    /\ unit.step.edit_history[max_edit_history] = unit.arg

\* C19: check_job_stalled(job) is false when the job has not started; otherwise
\* it is true iff now - started_at > max_minutes or now - (last_progress_at, or
\* started_at when no progress was recorded) > stall_timeout_minutes.
C19_StallClassification ==
    unit.call = "check_job_stalled" =>
        LET since == IF job.last_progress_at = None THEN job.started_at
                     ELSE job.last_progress_at
        IN  /\ job.started_at = None => ~unit.result.value
            /\ job.started_at # None =>
                  (unit.result.value <=>
                      \/ now - job.started_at > job.max_minutes
                      \/ now - since > stall_timeout_minutes)

\* C19 witness: a job within its wall-clock allowance is stalled on the
\* progress timeout alone, measured from its recorded progress.
C19_Witness ==
    /\ unit.call = "check_job_stalled" /\ unit.result.value
    /\ job.started_at # None /\ job.last_progress_at # None
    /\ job.last_progress_at > job.started_at
    /\ now - job.started_at <= job.max_minutes
    /\ now - job.last_progress_at > stall_timeout_minutes

\* C20: the complexity score returned by select_model is always in 1..10: an
\* explicit integer complexity is clamped to [1, 10], an auto-detected one is
\* the highest tier with a matching keyword, and the score is 5 when nothing
\* matches or routing is disabled.
C20_ComplexityInRange ==
    unit.call = "select_model" =>
        LET score == unit.result.complexity_score
            c == unit.step.complexity
            tiers == {l \in 1..10 :
                        COMPLEXITY_KEYWORDS[l] \cap unit.step.text # {}}
        IN  /\ score \in 1..10
            /\ ~settings.llm_routing_enabled => score = 5
            /\ settings.llm_routing_enabled /\ c.kind = "int" =>
                  /\ c.value > 10 => score = 10
                  /\ c.value < 1 => score = 1
                  /\ c.value \in 1..10 => score = c.value
            /\ settings.llm_routing_enabled /\ c.kind # "int" =>
                  /\ tiers = {} => score = 5
                  /\ tiers # {} => score \in tiers /\ \A l \in tiers : l <= score

\* C20 witness: a step without an integer complexity whose text holds keywords
\* of tiers 1, 2 and 8 scores 8.
C20_Witness ==
    /\ unit.call = "select_model" /\ settings.llm_routing_enabled
    /\ unit.step.complexity.kind = "other"
    /\ {"test", "refactor", "security"} \subseteq unit.step.text
    /\ unit.result.complexity_score = 8

\* ---- routing decisions (C21..C24) ----
\* The call under observation: select_model has returned with routing enabled.
Routed == unit.call = "select_model" /\ settings.llm_routing_enabled

\* Its two token estimates and their sum.
RoutedTokens == unit.arg[1] + unit.arg[2]

\* remaining_budget of the call, and twice the cost of a model at the call's
\* token estimates (cost > 0.5 * remaining  <=>  2 * cost > remaining).
RoutedRemaining == job.budget_usd - (IF job.cost_usd = None THEN 0 ELSE job.cost_usd)

TwiceCost(model) == 2 * estimate_cost(model, unit.arg[1], unit.arg[2])

\* The tier the call's complexity score alone gives, read off the thresholds.
ScoreTier ==
    LET c == unit.result.complexity_score
    IN  IF c <= routing_complexity_threshold_medium THEN "simple"
        ELSE IF c <= routing_complexity_threshold_complex THEN "medium"
        ELSE "complex"

TierModel(tier) ==
    IF tier = "simple" THEN model_simple
    ELSE IF tier = "medium" THEN model_medium ELSE model_complex

\* The tier after the token-volume step.
VolumeTier ==
    IF ScoreTier = "simple" /\ RoutedTokens > routing_token_threshold_large
    THEN "medium" ELSE ScoreTier

\* The allowance is positive and the cost of the given tier exceeds it.
Pressure(tier) == RoutedRemaining > 0 /\ TwiceCost(TierModel(tier)) > RoutedRemaining

\* C21: with routing enabled, no token upgrade and no budget pressure, the
\* model is the simple one for a score up to the medium threshold, the medium
\* one for a score up to the complex threshold and the complex one above it,
\* and the reason names that tier and the score.
C21_BaseTierByThresholds ==
    (Routed /\ VolumeTier = ScoreTier /\ ~Pressure(ScoreTier))
    => /\ unit.result.model = TierModel(ScoreTier)
       /\ unit.result.complexity_score = get_complexity(unit.step)
       /\ unit.result.reason =
            [kind |-> IF ScoreTier = "simple" THEN "simple_task_complexity"
                      ELSE IF ScoreTier = "medium" THEN "medium_task_complexity"
                      ELSE "complex_task_complexity",
             n |-> unit.result.complexity_score]

\* A score exactly at the complex threshold was routed to the medium model.
C21_Witness ==
    /\ Routed /\ VolumeTier = ScoreTier /\ ~Pressure(ScoreTier)
    /\ unit.result.complexity_score = routing_complexity_threshold_complex
    /\ unit.result.model = model_medium
    /\ unit.result.reason.kind = "medium_task_complexity"

\* C22: the token upgrade turns only the simple tier into the medium one and
\* only for a token sum strictly above the large-token threshold; the medium
\* and complex tiers are never changed by it and a sum equal to the threshold
\* upgrades nothing.
C22_TokenUpgrade ==
    Routed =>
      /\ unit.result.reason.kind = "token_upgrade_tokens"
           => /\ ScoreTier = "simple"
              /\ RoutedTokens > routing_token_threshold_large
              /\ unit.result.model = model_medium
              /\ unit.result.reason.n = RoutedTokens
      /\ (ScoreTier = "simple" /\ RoutedTokens > routing_token_threshold_large
            /\ ~Pressure("medium"))
           => /\ unit.result.model = model_medium
              /\ unit.result.reason.kind = "token_upgrade_tokens"
      /\ (ScoreTier = "simple" /\ RoutedTokens <= routing_token_threshold_large)
           => /\ unit.result.model = model_simple
              /\ unit.result.reason.kind = "simple_task_complexity"
      /\ (ScoreTier # "simple" /\ ~Pressure(ScoreTier))
           => unit.result.model = TierModel(ScoreTier)

\* A simple step with one token more than the threshold went to the medium model.
C22_Witness ==
    /\ Routed /\ ScoreTier = "simple"
    /\ RoutedTokens = routing_token_threshold_large + 1
    /\ unit.result.model = model_medium
    /\ unit.result.reason = [kind |-> "token_upgrade_tokens", n |-> RoutedTokens]

\* C23: the budget step downgrades only under a positive allowance that the
\* estimated cost exceeds: complex goes to medium, and medium (original or just
\* downgraded) goes to simple when its cost still exceeds the allowance; simple
\* stays, no tier is raised, nothing is downgraded at an allowance of zero or
\* less, and the returned estimate is the cost of the returned model.
C23_BudgetDowngrade ==
    Routed =>
      /\ unit.result.estimated_cost
           = estimate_cost(unit.result.model, unit.arg[1], unit.arg[2])
      /\ ~Pressure(VolumeTier)
           => /\ unit.result.model = TierModel(VolumeTier)
              /\ unit.result.reason.kind
                   \notin {"budget_downgrade_from_complex", "budget_downgrade_from_medium"}
      /\ VolumeTier = "simple" => unit.result.model = model_simple
      /\ (VolumeTier = "medium" /\ Pressure("medium"))
           => /\ unit.result.model = model_simple
              /\ unit.result.reason.kind = "budget_downgrade_from_medium"
      /\ (VolumeTier = "complex" /\ Pressure("complex") /\ ~Pressure("medium"))
           => /\ unit.result.model = model_medium
              /\ unit.result.reason.kind = "budget_downgrade_from_complex"
      /\ (VolumeTier = "complex" /\ Pressure("complex") /\ Pressure("medium"))
           => /\ unit.result.model = model_simple
              /\ unit.result.reason.kind = "budget_downgrade_from_medium"

\* A complex step was taken down twice, to the simple model.
C23_Witness ==
    /\ Routed /\ VolumeTier = "complex"
    /\ Pressure("complex") /\ Pressure("medium")
    /\ unit.result.model = model_simple
    /\ unit.result.reason.kind = "budget_downgrade_from_medium"
    /\ unit.result.estimated_cost = estimate_cost(model_simple, unit.arg[1], unit.arg[2])

\* C24: whenever the allowance is positive, the estimated cost of the returned
\* model does not exceed it.
C24_CostWithinAllowance ==
    (Routed /\ RoutedRemaining > 0)
    => 2 * unit.result.estimated_cost <= RoutedRemaining

\* ---- the budget and the final status of a run (C25, C26) ----
\* C25: once execute_job has run, the job's cost_usd is at most its budget_usd,
\* for any budget and any token counts.
C25_CostWithinBudget ==
    \A w \in Solo : Ended(w) /\ jobExists => job.cost_usd <= job.budget_usd

\* C26: once execute_job has run in dry mode on a job that is found and not
\* cancelled, also with a budget of 0.5, the job's status is completed or failed.
C26_DryRunEndsCompletedOrFailed ==
    \A w \in Solo :
        (Ended(w) /\ jobExists /\ ~job.cancelled /\ settings.dry_run)
        => job.status \in {COMPLETED, FAILED}

\* ---- failure handling in the step loop (C27..C30) ----
\* C27: when the primary call of a step has failed, the failure scope adds one
\* to the step's retry_count, marks the step failed, sets last_failed_step_id
\* to this step and adds one to consecutive_failures whichever step failed
\* before; the loop detector is consulted with these updated values.
C27_PrimaryFailureBookkeeping ==
    [][\A w \in Solo :
          (run[w].pc = "primary_failed" /\ Acts(w))
          => LET sid == run[w].step_id
             IN  /\ steps'[sid].retry_count = steps[sid].retry_count + 1
                 /\ steps'[sid].status = "failed"
                 /\ job'.last_failed_step_id = sid
                 /\ job'.consecutive_failures = job.consecutive_failures + 1
                 /\ run'[w].pc = IF check_step_retry(job', steps'[sid], sid).should_replan
                                 THEN "replan_scope" ELSE "fallback"]_vars

\* The primary call of a step has just failed after an earlier step had failed:
\* the count went on from that step's failure.
C27_Witness ==
    \E w \in Solo :
        /\ run[w].pc \in {"replan_scope", "fallback"}
        /\ job.last_failed_step_id = run[w].step_id
        /\ steps[run[w].step_id].status = "failed"
        /\ steps[run[w].step_id].retry_count = 1
        /\ job.consecutive_failures >= 2
        /\ \E s \in DOMAIN steps : s # run[w].step_id /\ steps[s].status = "failed"

\* A code-generation call: coder_agent.implement_step is invoked.
CodeCall(w) == run'[w].code_calls = run[w].code_calls + 1

\* The iterations of the step loop begun so far: each creates one execution step.
Iterations == Cardinality({s \in DOMAIN steps : steps[s].phase = "execution"})

\* C28: the fallback call is made exactly when the primary call of the step has
\* failed and the loop detector signalled no replan, and once at most; one
\* iteration makes at most two code-generation calls, and a step whose failure
\* triggers a replan is left without a fallback attempt.
C28_FallbackOnlyWithoutReplan ==
    /\ [](\A w \in Solo :
             /\ run[w].code_calls <= 2 * Iterations
             /\ run[w].pc = "primary" => run[w].code_calls <= 2 * (Iterations - 1)
             /\ run[w].pc = "fallback" => run[w].code_calls <= 2 * (Iterations - 1) + 1)
    /\ [][\A w \in Solo :
             LET sid == run[w].step_id
             IN  /\ (Acts(w) /\ CodeCall(w)) => run[w].pc \in {"primary", "fallback"}
                 /\ (Acts(w) /\ run[w].pc = "fallback")
                      => CodeCall(w) /\ run'[w].pc \in {"apply_diff", "fallback_failed"}
                 /\ (Acts(w) /\ run'[w].pc = "fallback")
                      => /\ run[w].pc = "primary_failed"
                         /\ ~check_step_retry(job', steps'[sid], sid).should_replan
                 /\ (Acts(w) /\ run[w].pc = "primary_failed"
                       /\ ~check_step_retry(job', steps'[sid], sid).should_replan)
                      => run'[w].pc = "fallback"
                 /\ (Acts(w) /\ run[w].pc \in {"replan_scope", "replan_call", "replan_bill"})
                      => run'[w].pc \in {"replan_call", "replan_bill", "step_head", "except"}
                 /\ (Acts(w) /\ run'[w].pc = "primary") => run[w].pc = "route"]_vars

\* The fallback model has answered after the primary call of the first step
\* failed: two code-generation calls in one iteration.
C28_Witness ==
    \E w \in Solo :
        /\ run[w].pc = "apply_diff" /\ run[w].model_name = "fallback"
        /\ Iterations = 1 /\ run[w].code_calls = 2

\* C29: when the fallback call fails too, the step's retry_count goes up by one
\* again, the step stays failed, no exception leaves the loop body, the job's
\* row (its status included) is untouched and the loop goes on to the next
\* step; so a job can end COMPLETED with failed steps.
C29_FallbackFailureContinues ==
    [][\A w \in Solo :
          (run[w].pc = "fallback_failed" /\ Acts(w))
          => LET sid == run[w].step_id
             IN  /\ steps[sid].status = "failed"
                 /\ steps' = [steps EXCEPT ![sid].retry_count = @ + 1]
                 /\ job' = job
                 /\ run'[w].exc = NoError
                 /\ run'[w].pc = "step_head"]_vars

\* A run ended COMPLETED although a step failed in both calls.
C29_Witness ==
    \E w \in Solo :
        /\ Ended(w) /\ job.status = COMPLETED
        /\ \E s \in DOMAIN steps : steps[s].status = "failed" /\ steps[s].retry_count = 2

\* C30: consecutive_failures goes back to 0 exactly when a step succeeds (by
\* the primary or the fallback call; the step's retry_count is then 0, the step
\* completed and progress recorded) or when a replan is accepted; its only
\* other change is the +1 of a primary failure; a fallback failure and a
\* blocked or stalled stop leave it as it is.
C30_ConsecutiveFailuresReset ==
    [][\A w \in Solo :
          LET sid == run[w].step_id
              cf == job.consecutive_failures
              cf2 == job'.consecutive_failures
          IN  /\ cf2 # cf
                   => \/ run[w].pc = "bill_step" /\ cf2 = 0
                      \/ run[w].pc = "replan_scope" /\ run'[w].pc = "replan_call" /\ cf2 = 0
                      \/ run[w].pc = "primary_failed" /\ cf2 = cf + 1
              /\ (Acts(w) /\ run[w].pc = "bill_step")
                   => /\ cf2 = 0
                      /\ steps'[sid].retry_count = 0
                      /\ steps'[sid].status = "completed"
                      /\ job'.last_progress_at = now
              /\ (Acts(w) /\ run[w].pc = "replan_scope")
                   => cf2 = IF run'[w].pc = "replan_call" THEN 0 ELSE cf
              /\ (Acts(w) /\ run'[w].pc = "done"
                    /\ job'.status \in {BUDGET_EXCEEDED, STALLED})
                   => cf2 = cf
              /\ (Acts(w) /\ run[w].pc = "fallback_failed") => cf2 = cf]_vars

\* The fallback call rescued a step whose primary call had failed: the step is
\* completed with retry_count 0 and the failure count is back at 0.
C30_Witness ==
    \E w \in Solo :
        /\ run[w].pc = "step_head"
        /\ job.last_failed_step_id = run[w].step_id
        /\ steps[run[w].step_id].status = "completed"
        /\ steps[run[w].step_id].retry_count = 0
        /\ job.consecutive_failures = 0
        /\ job.last_progress_at = now

\* ---- billing, scopes and replanning (C31..C33) ----
\* C31: job.cost_usd never decreases during an execution: it changes only by
\* the non-negative cost billed after a plan-generation call (initial plan or
\* replan) or after a successful code-generation call; failed calls, guard
\* checks and status transitions leave it unchanged.
C31_CostOnlyGrowsAtBilling ==
    [][\A w \in Solo :
          /\ job'.cost_usd >= job.cost_usd
          /\ job'.cost_usd # job.cost_usd
               => /\ run[w].pc \in {"bill_plan", "replan_bill", "bill_step"}
                  /\ run[w].tokens > 0
                  /\ job'.cost_usd = job.cost_usd
                       + calculate_cost(IF run[w].pc = "bill_step" THEN "model_coder"
                                        ELSE "model_cto", run[w].tokens)]_vars

\* Three calls have been billed, a replan and a successful step among them.
C31_Witness ==
    \E w \in Solo :
        /\ run[w].pc = "step_head" /\ run[w].gen = 1
        /\ \E s \in DOMAIN steps :
              steps[s].phase = "execution" /\ steps[s].status = "completed"
        /\ job.requests_made = 3 /\ job.cost_usd >= 3

\* C32: no transactional scope of the job/step store is open while an external
\* generation call is in flight: every code-generation and plan-generation
\* call, the replanner's included, starts after the preceding scope was closed.
C32_NoScopeAcrossGeneration ==
    \A w \in Solo : run[w].pc \in GenerationCalls => OpenScopes(w) = {}

\* C33: an accepted trigger_replanning (replan_count below the cap) commits
\* replan_count + 1, consecutive_failures = 0 and status REPLANNING before the
\* plan-generation call is issued; after the call returns, its cost is billed
\* and the status set back to RUNNING before the new plan reaches the controller.
C33_ReplanOrder ==
    /\ [](\A w \in Solo :
             run[w].pc = "replan_call"
             => /\ job.status = REPLANNING
                /\ job.consecutive_failures = 0
                /\ job.replan_count >= 1)
    /\ [][\A w \in Solo :
             /\ (Acts(w) /\ run[w].pc = "replan_scope"
                   /\ job.replan_count < max_replan_attempts)
                  => /\ job'.replan_count = job.replan_count + 1
                     /\ job'.consecutive_failures = 0
                     /\ job'.status = REPLANNING
                     /\ run'[w].pc = "replan_call"
                     /\ run'[w].plan_calls = run[w].plan_calls
             /\ (Acts(w) /\ run'[w].pc = "replan_call") => run[w].pc = "replan_scope"
             /\ (Acts(w) /\ run[w].pc = "replan_call" /\ run'[w].pc # "except")
                  => /\ run'[w].pc = "replan_bill"
                     /\ run'[w].plan = run[w].plan
                     /\ job' = job
             /\ (Acts(w) /\ run[w].pc = "replan_bill")
                  => /\ job'.cost_usd
                          = job.cost_usd + calculate_cost("model_cto", run[w].tokens)
                     /\ job'.requests_made = job.requests_made + 1
                     /\ job'.status = RUNNING
                     /\ run'[w].plan = run[w].new_plan
                     /\ run'[w].pc = "step_head"]_vars

\* The controller holds the plan of an accepted replan: the call was billed
\* and the job is RUNNING again.
C33_Witness ==
    \E w \in Solo :
        /\ run[w].pc = "step_head" /\ run[w].gen = 1
        /\ Len(run[w].plan) > 0 /\ run[w].plan[1].gen = 1
        /\ job.status = RUNNING /\ job.replan_count >= 1
        /\ job.consecutive_failures = 0
        /\ job.cost_usd > 0

\* ---- purity of the guard checks (C34) ----
\* The four checks.
GuardChecks ==
    {"check_budget", "check_step_retry", "check_file_edit_loop", "check_job_stalled"}

\* A step that is a call of one of the checks.
ChecksCalled == unit'.calls = unit.calls + 1 /\ unit'.call \in GuardChecks

\* A call of a check leaves every field of the job and of the step unchanged.
ChecksKeepFrame == ChecksCalled => (job' = job /\ unit'.step = unit.step)

\* The answers of check_budget, check_step_retry and check_file_edit_loop are
\* the same after any step that leaves the job and the step unchanged.
ArgumentChecksStable ==
    (job' = job /\ unit'.step = unit.step)
    => /\ \A est \in Estimates : check_budget(job, est)' = check_budget(job, est)
       /\ check_step_retry(job, unit.step, unit.step.id)'
            = check_step_retry(job, unit.step, unit.step.id)
       /\ \A f \in Paths :
             check_file_edit_loop(unit.step, f)' = check_file_edit_loop(unit.step, f)

\* C34: the guard checks are pure: check_budget, check_step_retry,
\* check_file_edit_loop and check_job_stalled leave every field of the job and
\* the step unchanged, and the same inputs always give the same result.
C34_GuardsPure ==
    [][/\ ChecksKeepFrame
       /\ ArgumentChecksStable
       /\ job' = job => check_job_stalled(job)' = check_job_stalled(job)]_vars

\* C34, amended: the checks change nothing, and their answers depend on their
\* arguments only, except that check_job_stalled also reads the clock: on the
\* same job it gives the same answer only at the same time.
C34_GuardsPureButClock ==
    [][/\ ChecksKeepFrame
       /\ ArgumentChecksStable
       /\ (job' = job /\ now' = now)
            => check_job_stalled(job)' = check_job_stalled(job)
       /\ (ChecksCalled /\ unit'.call = "check_job_stalled")
            => unit'.result.value = check_job_stalled(job)]_vars

\* The stall check has answered true on a job, asked for the second time, for
\* which it answers false at the time the job started.
C34_Witness ==
    /\ unit.call = "check_job_stalled" /\ unit.calls >= 2
    /\ unit.result.value = TRUE
    /\ job.started_at # None /\ job.last_progress_at = None
    /\ job.started_at + stall_timeout_minutes < now
    /\ now <= job.started_at + job.max_minutes

\* ---- fatal errors (C35) ----
\* C35: any exception the step-failure path does not handle (job not found, a
\* failure of the initial plan generation, of context assembly or routing, of
\* diff application, of push or pull-request creation, of replanning) marks an
\* existing job FAILED and is re-raised to the caller; it is never swallowed.
C35_FatalErrorsPropagate ==
    /\ [](\A w \in Solo :
             /\ run[w].exc # NoError => run[w].pc \in {"except", "done"}
             /\ (Ended(w) /\ run[w].exc # NoError)
                  => /\ run[w].outcome = "raised"
                     /\ jobExists => job.status = FAILED)
    /\ [][\A w \in Solo :
             (Acts(w) /\ run[w].pc = "except")
             => /\ run'[w].pc = "done"
                /\ run'[w].outcome = "raised"
                /\ run'[w].exc = run[w].exc
                /\ job' = IF jobExists THEN update_job_status(job, FAILED) ELSE job]_vars

\* A failed diff application has ended the run: the job is FAILED, the step is
\* left behind and the error reached the caller.
C35_Witness ==
    \E w \in Solo :
        /\ Ended(w) /\ run[w].exc = "apply_diff failed"
        /\ run[w].outcome = "raised"
        /\ jobExists /\ job.status = FAILED

C38_NoStepLeftRunning ==
    \A w \in Solo :
        (Ended(w) /\ jobExists /\ job.status \in Terminal)
        => \A s \in DOMAIN steps :
              steps[s].phase = "execution" => steps[s].status \in {"completed", "failed"}

\* An iteration is about to start on a job that has spent its budget.
SpentAtStart(w) ==
    /\ run[w].pc = "step_head" /\ run[w].idx < Len(run[w].iter)
    /\ job.cost_usd >= job.budget_usd

\* C39: a job whose cost_usd is >= budget_usd at the start of a step iteration
\* always ends FAILED through the legacy cap and never BUDGET_EXCEEDED; the
\* status BUDGET_EXCEEDED is reachable only when cost_usd < budget_usd and the
\* projected spend reaches the hard-stop threshold.
C39_SpentJobFailsByLegacyCap ==
    /\ [](job.status = BUDGET_EXCEEDED
            => /\ job.cost_usd < job.budget_usd
               /\ Ge(<<job.cost_usd + estimated_cost, job.budget_usd>>,
                     budget_hard_stop_threshold))
    /\ [][\A w \in Solo :
             (Acts(w) /\ SpentAtStart(w))
             => /\ run'[w].pc = "except"
                /\ run'[w].exc = "Budget limit exceeded"
                /\ job' = job]_vars

\* C39, amended: such a job never becomes BUDGET_EXCEEDED; its iteration ends
\* the run STALLED when the stall check, which comes first, trips, and by the
\* legacy cap's error (FAILED) otherwise.
C39_SpentJobStallsOrFails ==
    /\ [](job.status = BUDGET_EXCEEDED
            => /\ job.cost_usd < job.budget_usd
               /\ Ge(<<job.cost_usd + estimated_cost, job.budget_usd>>,
                     budget_hard_stop_threshold))
    /\ [](\A w \in Solo :
             (Ended(w) /\ run[w].exc = "Budget limit exceeded")
             => run[w].outcome = "raised" /\ job.status = FAILED)
    /\ [][\A w \in Solo :
             (Acts(w) /\ SpentAtStart(w))
             => IF check_job_stalled(job)
                THEN /\ job'.status = STALLED
                     /\ run'[w].pc = "done" /\ run'[w].outcome = "returned"
                ELSE /\ run'[w].pc = "except"
                     /\ run'[w].exc = "Budget limit exceeded"
                     /\ job' = job]_vars

\* The legacy cap has failed a job that had spent its budget when an iteration began.
C39_Witness ==
    \E w \in Solo :
        /\ Ended(w) /\ run[w].exc = "Budget limit exceeded"
        /\ job.status = FAILED
        /\ job.cost_usd >= job.budget_usd
        /\ run[w].idx >= 1

\* C40: the cost billed for a successful step is computed at the price of the
\* model that produced the result: the routed model after a successful primary
\* call, the fallback model after a successful fallback call.  model_name is
\* the model the result came from when the success scope is entered, and the
\* model the cost was computed and recorded for when it is left.
C40_BilledAtProducingModel ==
    [][\A w \in Solo :
          (Acts(w) /\ run[w].pc = "bill_step" /\ run[w].tokens > 0)
          => /\ run[w].model_name \in {"routed", "fallback"}
             /\ run'[w].model_name = run[w].model_name]_vars

====
